---- MODULE Spec2Model ----
(***************************************************************************)
(* go-steam: the social caches (socialcache.GroupsList, ChatsList and the  *)
(* roster inside each Chat) and the Social packet handlers that keep them  *)
(* up to date.                                                             *)
(*                                                                         *)
(* A cache is a Go map from SteamId to a pointer to a record, guarded by   *)
(* one sync.RWMutex.  Every cache method takes the lock on entry and       *)
(* releases it on return (defer), so one method call is one atomic step.   *)
(* Group is a struct of scalars and strings: a copy of it is a value.      *)
(* Chat holds ChatMembers, a Go map, which is a reference: the model keeps *)
(* the roster maps in a heap (rosters) and a Chat holds a reference.       *)
(***************************************************************************)
EXTENDS Integers, Sequences, FiniteSets, TLC

\* ------------------------------------------------------------------
\* Bounds of the model
\* ------------------------------------------------------------------
\* Roster maps a client program may have allocated and in use at once.
MaxRosters == 2

\* ------------------------------------------------------------------
\* Identifiers (package steamid) and enumerations (package steamlang)
\* ------------------------------------------------------------------
\* A SteamId packs an account number and an account-type tag; the model
\* keeps the layout with a narrow account-number field.
AccountBits == 4

EAccountType_Individual == 1
EAccountType_Clan == 7
EAccountType_Chat == 8

MakeSteamId(type, account) == type * AccountBits + account

GetAccountType(id) == (id \div AccountBits) % 16

ClanIds == {MakeSteamId(EAccountType_Clan, 0), MakeSteamId(EAccountType_Clan, 1)}
RoomIds == {MakeSteamId(EAccountType_Chat, 0), MakeSteamId(EAccountType_Chat, 1)}
MemberIds == {MakeSteamId(EAccountType_Individual, 1), MakeSteamId(EAccountType_Individual, 2)}

EClanRelationship_None == 0
EClanRelationship_Invited == 2
EClanRelationship_Member == 3

\* The nil map / nil pointer.
NIL == 0

\* ------------------------------------------------------------------
\* Go maps
\* ------------------------------------------------------------------
EmptyMap == [x \in {} |-> 0]

MapPut(m, k, v) == [x \in (DOMAIN m) \cup {k} |-> IF x = k THEN v ELSE m[x]]

MapDelete(m, k) == [x \in (DOMAIN m) \ {k} |-> m[x]]

\* ------------------------------------------------------------------
\* socialcache.Group and GroupsList
\* ------------------------------------------------------------------
Group(id, nm, av, rel, total, online, chatting, ingame) ==
    [SteamId |-> id, Name |-> nm, Avatar |-> av, Relationship |-> rel,
     MemberTotalCount |-> total, MemberOnlineCount |-> online,
     MemberChattingCount |-> chatting, MemberInGameCount |-> ingame]

NewGroupsList == EmptyMap

\* Add as an upsert: the entry is written whether or not the key exists.
GroupsList_Add_Overwrite(byId, group) == MapPut(byId, group.SteamId, group)

GroupsList_Add(byId, group) ==
    IF group.SteamId \in DOMAIN byId
    THEN byId
    ELSE MapPut(byId, group.SteamId, group)

\* Remove that deletes nothing.
GroupsList_Remove_Keep(byId, id) == byId

GroupsList_Remove(byId, id) == MapDelete(byId, id)

GroupsList_GetCopy(byId) == [key \in DOMAIN byId |-> byId[key]]

GroupsList_ById(byId, id) ==
    IF id \in DOMAIN byId
    THEN [val |-> byId[id], found |-> TRUE]
    ELSE [val |-> Group(0, "", "", 0, 0, 0, 0, 0), found |-> FALSE]

GroupsList_Count(byId) == Cardinality(DOMAIN byId)

\* A setter that writes the name only where none is stored yet.
GroupsList_SetName_First(byId, id, nm) ==
    IF id \in DOMAIN byId /\ byId[id].Name = ""
    THEN [byId EXCEPT ![id].Name = nm]
    ELSE byId

GroupsList_SetName(byId, id, nm) ==
    IF id \in DOMAIN byId
    THEN [byId EXCEPT ![id].Name = nm]
    ELSE byId

GroupsList_SetAvatar(byId, id, hash) ==
    IF id \in DOMAIN byId
    THEN [byId EXCEPT ![id].Avatar = hash]
    ELSE byId

GroupsList_SetRelationship(byId, id, relationship) ==
    IF id \in DOMAIN byId
    THEN [byId EXCEPT ![id].Relationship = relationship]
    ELSE byId

\* The setter as an upsert: a missing entry is created to hold the count.
GroupsList_SetMemberTotalCount_Create(byId, id, count) ==
    IF id \in DOMAIN byId
    THEN [byId EXCEPT ![id].MemberTotalCount = count]
    ELSE MapPut(byId, id, Group(id, "", "", EClanRelationship_None, count, 0, 0, 0))

GroupsList_SetMemberTotalCount(byId, id, count) ==
    IF id \in DOMAIN byId
    THEN [byId EXCEPT ![id].MemberTotalCount = count]
    ELSE byId

\* A setter that adds the count to the one stored.
GroupsList_SetMemberOnlineCount_Sum(byId, id, count) ==
    IF id \in DOMAIN byId
    THEN [byId EXCEPT ![id].MemberOnlineCount = @ + count]
    ELSE byId

GroupsList_SetMemberOnlineCount(byId, id, count) ==
    IF id \in DOMAIN byId
    THEN [byId EXCEPT ![id].MemberOnlineCount = count]
    ELSE byId

GroupsList_SetMemberChattingCount(byId, id, count) ==
    IF id \in DOMAIN byId
    THEN [byId EXCEPT ![id].MemberChattingCount = count]
    ELSE byId

GroupsList_SetMemberInGameCount(byId, id, count) ==
    IF id \in DOMAIN byId
    THEN [byId EXCEPT ![id].MemberInGameCount = count]
    ELSE byId

\* ------------------------------------------------------------------
\* socialcache.Chat, ChatMember and ChatsList
\* ------------------------------------------------------------------
\* A ChatsList is the pair of its byId map and the heap of roster maps its
\* chats (and the copies handed out) refer to.
Chat(id, groupId, members) ==
    [SteamId |-> id, GroupId |-> groupId, ChatMembers |-> members]

ChatMember(id, chatPerm, clanPerm) ==
    [SteamId |-> id, ChatPermissions |-> chatPerm, ClanPermissions |-> clanPerm]

ChatsList(byId, heap) == [byId |-> byId, heap |-> heap]

NewChatsList == ChatsList(EmptyMap, EmptyMap)

\* make(map[steamid.SteamId]ChatMember): the address of a fresh, empty map (the first
\* one not in use).
NewRoster(heap) ==
    CHOOSE r \in 1..(Cardinality(DOMAIN heap) + 1) :
        /\ r \notin DOMAIN heap
        /\ \A q \in 1..(r - 1) : q \in DOMAIN heap

ChatsList_Add(list, chat) ==
    IF chat.SteamId \in DOMAIN list.byId
    THEN list
    ELSE ChatsList(MapPut(list.byId, chat.SteamId, chat), list.heap)

ChatsList_Remove(list, id) == ChatsList(MapDelete(list.byId, id), list.heap)

\* An add that creates the missing chat without its identifier.
ChatsList_AddChatMember_Unkeyed(list, id, member) ==
    LET byId1 == IF id \in DOMAIN list.byId
                 THEN list.byId
                 ELSE MapPut(list.byId, id, Chat(0, 0, NIL))
        fresh == NewRoster(list.heap)
        isNew == byId1[id].ChatMembers = NIL
        ref   == IF isNew THEN fresh ELSE byId1[id].ChatMembers
        byId2 == IF isNew THEN [byId1 EXCEPT ![id].ChatMembers = fresh] ELSE byId1
        heap1 == IF isNew THEN MapPut(list.heap, fresh, EmptyMap) ELSE list.heap
    IN  ChatsList(byId2, [heap1 EXCEPT ![ref] = MapPut(heap1[ref], member.SteamId, member)])

\* An add that leaves the entry of a member already in the roster as it is.
ChatsList_AddChatMember_IfAbsent(list, id, member) ==
    LET byId1 == IF id \in DOMAIN list.byId
                 THEN list.byId
                 ELSE MapPut(list.byId, id, Chat(id, 0, NIL))
        fresh == NewRoster(list.heap)
        isNew == byId1[id].ChatMembers = NIL
        ref   == IF isNew THEN fresh ELSE byId1[id].ChatMembers
        byId2 == IF isNew THEN [byId1 EXCEPT ![id].ChatMembers = fresh] ELSE byId1
        heap1 == IF isNew THEN MapPut(list.heap, fresh, EmptyMap) ELSE list.heap
    IN  ChatsList(byId2, [heap1 EXCEPT ![ref] =
                            IF member.SteamId \in DOMAIN heap1[ref]
                            THEN heap1[ref]
                            ELSE MapPut(heap1[ref], member.SteamId, member)])

ChatsList_AddChatMember(list, id, member) ==
    LET byId1 == IF id \in DOMAIN list.byId
                 THEN list.byId
                 ELSE MapPut(list.byId, id, Chat(id, 0, NIL))
        fresh == NewRoster(list.heap)
        isNew == byId1[id].ChatMembers = NIL
        ref   == IF isNew THEN fresh ELSE byId1[id].ChatMembers
        byId2 == IF isNew THEN [byId1 EXCEPT ![id].ChatMembers = fresh] ELSE byId1
        heap1 == IF isNew THEN MapPut(list.heap, fresh, EmptyMap) ELSE list.heap
    IN  ChatsList(byId2, [heap1 EXCEPT ![ref] = MapPut(heap1[ref], member.SteamId, member)])

\* A removal that leaves the roster as it is.
ChatsList_RemoveChatMember_Keep(list, id, member) == list

ChatsList_RemoveChatMember(list, id, member) ==
    IF id \notin DOMAIN list.byId
    THEN list
    ELSE IF list.byId[id].ChatMembers = NIL
         THEN list
         ELSE ChatsList(list.byId,
                        [list.heap EXCEPT ![list.byId[id].ChatMembers] =
                            MapDelete(list.heap[list.byId[id].ChatMembers], member)])

ChatsList_GetCopy(list) == [key \in DOMAIN list.byId |-> list.byId[key]]

\* A lookup that takes a chat without clan identifier for a missing one.
ChatsList_ById_NonZero(list, id) ==
    IF id \in DOMAIN list.byId /\ list.byId[id].GroupId # 0
    THEN [val |-> list.byId[id], found |-> TRUE]
    ELSE [val |-> Chat(0, 0, NIL), found |-> FALSE]

ChatsList_ById(list, id) ==
    IF id \in DOMAIN list.byId
    THEN [val |-> list.byId[id], found |-> TRUE]
    ELSE [val |-> Chat(0, 0, NIL), found |-> FALSE]

ChatsList_Count(list) == Cardinality(DOMAIN list.byId)

\* What a holder of a Chat value sees when it reads the value: its fields and, through
\* ChatMembers, the roster map the value refers to.
ReadChat(chat, heap) ==
    [SteamId |-> chat.SteamId, GroupId |-> chat.GroupId,
     isNil |-> chat.ChatMembers = NIL,
     ChatMembers |-> IF chat.ChatMembers = NIL THEN EmptyMap ELSE heap[chat.ChatMembers]]

\* ------------------------------------------------------------------
\* socialcache.Friend and FriendsList
\* ------------------------------------------------------------------
Friend(id, rel) ==
    [SteamId |-> id, Relationship |-> rel, Name |-> "", Avatar |-> "",
     PersonaState |-> 0, PersonaStateFlags |-> 0,
     GameAppId |-> 0, GameId |-> 0, GameName |-> ""]

NewFriendsList == EmptyMap

FriendsList_Add(byId, friend) ==
    IF friend.SteamId \in DOMAIN byId
    THEN byId
    ELSE MapPut(byId, friend.SteamId, friend)

FriendsList_Remove(byId, id) == MapDelete(byId, id)

FriendsList_Count(byId) == Cardinality(DOMAIN byId)

FriendsList_SetName(byId, id, nm) ==
    IF id \in DOMAIN byId THEN [byId EXCEPT ![id].Name = nm] ELSE byId

FriendsList_SetAvatar(byId, id, hash) ==
    IF id \in DOMAIN byId THEN [byId EXCEPT ![id].Avatar = hash] ELSE byId

FriendsList_SetPersonaState(byId, id, state) ==
    IF id \in DOMAIN byId THEN [byId EXCEPT ![id].PersonaState = state] ELSE byId

FriendsList_SetPersonaStateFlags(byId, id, flags) ==
    IF id \in DOMAIN byId THEN [byId EXCEPT ![id].PersonaStateFlags = flags] ELSE byId

FriendsList_SetGameAppId(byId, id, app) ==
    IF id \in DOMAIN byId THEN [byId EXCEPT ![id].GameAppId = app] ELSE byId

FriendsList_SetGameId(byId, id, game) ==
    IF id \in DOMAIN byId THEN [byId EXCEPT ![id].GameId = game] ELSE byId

FriendsList_SetGameName(byId, id, nm) ==
    IF id \in DOMAIN byId THEN [byId EXCEPT ![id].GameName = nm] ELSE byId

\* ------------------------------------------------------------------
\* State
\* ------------------------------------------------------------------
VARIABLES
    groups,     \* Social.Groups: the byId map of the GroupsList
    friends,    \* Social.Friends: the byId map of the FriendsList
    chats,      \* Social.Chats: the byId map of the ChatsList and the roster maps
    local,      \* Social.name and Social.avatar, guarded by Social.mutex
    cur,        \* the packet HandlePacket is handling, if any
    todo,       \* the calls the handler of cur has still to make, in order
    done,       \* the calls the handler of cur has made so far, in order
    pre,        \* the caches as they were when cur arrived
    under,      \* the program followed: the part of Social a behaviour exercises
    call,       \* the cache call made last: its caller, method and arguments
    held,       \* the Chat value a client program got from a read and still holds
    added,      \* per cache, the identifiers added and not removed since
    mutex,      \* per cache, its mutex field: a sync.RWMutex
    running     \* per goroutine, the cache method it is inside of, holding the lock

vars ==
    <<groups, friends, chats, local, cur, todo, done, pre, under, call, held, added,
      mutex, running>>

handlerVars == <<cur, todo, done, pre>>

NoCall == [by |-> "none", op |-> "none", id |-> 0, arg |-> 0]

NoChat == [found |-> FALSE, val |-> Chat(0, 0, NIL)]

NoPacket == [EMsg |-> "none"]

NoPre == [groups |-> EmptyMap, friends |-> EmptyMap, chats |-> NewChatsList]

\* One call of a cache method: the name of the method and its arguments.
Call(op, id, arg) == [op |-> op, id |-> id, arg |-> arg]

\* The Groups cache after call c.
GroupsAfter(byId, c) ==
    CASE c.op = "Groups.Add" -> GroupsList_Add(byId, c.arg)
      [] c.op = "Groups.Remove" -> GroupsList_Remove(byId, c.id)
      [] c.op = "Groups.SetName" -> GroupsList_SetName(byId, c.id, c.arg)
      [] c.op = "Groups.SetAvatar" -> GroupsList_SetAvatar(byId, c.id, c.arg)
      [] c.op = "Groups.SetRelationship" -> GroupsList_SetRelationship(byId, c.id, c.arg)
      [] c.op = "Groups.SetMemberTotalCount" -> GroupsList_SetMemberTotalCount(byId, c.id, c.arg)
      [] c.op = "Groups.SetMemberOnlineCount" -> GroupsList_SetMemberOnlineCount(byId, c.id, c.arg)
      [] c.op = "Groups.SetMemberChattingCount" -> GroupsList_SetMemberChattingCount(byId, c.id, c.arg)
      [] c.op = "Groups.SetMemberInGameCount" -> GroupsList_SetMemberInGameCount(byId, c.id, c.arg)
      [] OTHER -> byId

\* The Chats cache after call c.
ChatsAfter(list, c) ==
    CASE c.op = "Chats.Add" -> ChatsList_Add(list, c.arg)
      [] c.op = "Chats.Remove" -> ChatsList_Remove(list, c.id)
      [] c.op = "Chats.AddChatMember" -> ChatsList_AddChatMember(list, c.id, c.arg)
      [] c.op = "Chats.RemoveChatMember" -> ChatsList_RemoveChatMember(list, c.id, c.arg)
      [] OTHER -> list

\* The Friends cache after call c.
FriendsAfter(byId, c) ==
    CASE c.op = "Friends.Add" -> FriendsList_Add(byId, c.arg)
      [] c.op = "Friends.Remove" -> FriendsList_Remove(byId, c.id)
      [] c.op = "Friends.SetName" -> FriendsList_SetName(byId, c.id, c.arg)
      [] c.op = "Friends.SetAvatar" -> FriendsList_SetAvatar(byId, c.id, c.arg)
      [] c.op = "Friends.SetPersonaState" -> FriendsList_SetPersonaState(byId, c.id, c.arg)
      [] c.op = "Friends.SetPersonaStateFlags" -> FriendsList_SetPersonaStateFlags(byId, c.id, c.arg)
      [] c.op = "Friends.SetGameAppId" -> FriendsList_SetGameAppId(byId, c.id, c.arg)
      [] c.op = "Friends.SetGameId" -> FriendsList_SetGameId(byId, c.id, c.arg)
      [] c.op = "Friends.SetGameName" -> FriendsList_SetGameName(byId, c.id, c.arg)
      [] OTHER -> byId

\* The Chat value a client holds after call c: ById hands out the struct copied out of
\* the cache, whose ChatMembers is the reference the cache holds; GetCopy hands out one
\* such struct per key (the client keeps the one under c.id).
HeldAfter(h, list, c) ==
    CASE c.op = "Chats.ById" ->
            [found |-> ChatsList_ById(list, c.id).found, val |-> ChatsList_ById(list, c.id).val]
      [] c.op = "Chats.GetCopy" ->
            IF c.id \in DOMAIN ChatsList_GetCopy(list)
            THEN [found |-> TRUE, val |-> ChatsList_GetCopy(list)[c.id]]
            ELSE NoChat
      [] OTHER -> h

\* The roster maps still referred to, by a Chat of the cache or by the Chat value a
\* client holds; the garbage collector reclaims the others.
Reachable(list, h) ==
    ({list.byId[k].ChatMembers : k \in DOMAIN list.byId}
        \cup (IF h.found THEN {h.val.ChatMembers} ELSE {})) \ {NIL}

Collect(list, h) ==
    ChatsList(list.byId,
              [r \in (DOMAIN list.heap) \cap Reachable(list, h) |-> list.heap[r]])

\* The identifiers added (by Add, or by AddChatMember creating the chat) and not
\* removed since.
AddedAfter(a, c) ==
    CASE c.op = "Groups.Add" -> [a EXCEPT !.Groups = @ \cup {c.arg.SteamId}]
      [] c.op = "Groups.Remove" -> [a EXCEPT !.Groups = @ \ {c.id}]
      [] c.op = "Chats.Add" -> [a EXCEPT !.Chats = @ \cup {c.arg.SteamId}]
      [] c.op = "Chats.AddChatMember" -> [a EXCEPT !.Chats = @ \cup {c.id}]
      [] c.op = "Chats.Remove" -> [a EXCEPT !.Chats = @ \ {c.id}]
      [] OTHER -> a

\* The effect of one cache call on the caches.
Perform(c) ==
    /\ groups' = GroupsAfter(groups, c)
    /\ chats' = Collect(ChatsAfter(chats, c), HeldAfter(held, chats, c))
    /\ friends' = FriendsAfter(friends, c)
    /\ added' = AddedAfter(added, c)

\* ------------------------------------------------------------------
\* The mutex field of a cache (sync.RWMutex) and the goroutines calling the cache
\* ------------------------------------------------------------------
NumThreads == 2

\* The zero value of a sync.RWMutex: unlocked, held by no writer and no reader.
RWMutex == [writer |-> FALSE, readers |-> 0]

\* One mutex shared by all the caches.
CacheOf_One(op) == "Chats"

\* The cache a method belongs to: the mutex it locks is the cache's own (for the
\* own-account branch of handlePersonaState, Social.mutex).
CacheOf(op) ==
    IF op \in {"Groups.Add", "Groups.Remove", "Groups.SetName", "Groups.SetAvatar",
               "Groups.SetRelationship", "Groups.SetMemberTotalCount",
               "Groups.SetMemberOnlineCount", "Groups.SetMemberChattingCount",
               "Groups.SetMemberInGameCount", "Groups.GetCopy", "Groups.ById",
               "Groups.Count"}
    THEN "Groups"
    ELSE IF op \in {"Chats.Add", "Chats.Remove", "Chats.AddChatMember",
                    "Chats.RemoveChatMember", "Chats.GetCopy", "Chats.ById",
                    "Chats.Count"}
    THEN "Chats"
    ELSE IF op = "Social.setLocal" THEN "Social" ELSE "Friends"

\* A cache whose every method takes the shared lock.
LockMode_Shared(op) == "RLock"

\* What each method calls on list.mutex in its first line (and defers the release of).
LockMode(op) ==
    IF op \in {"Groups.GetCopy", "Groups.ById", "Groups.Count",
               "Chats.GetCopy", "Chats.ById", "Chats.Count"}
    THEN "RLock"
    ELSE "Lock"

InitCaches ==
    /\ groups = NewGroupsList
    /\ friends = NewFriendsList
    /\ chats = NewChatsList
    /\ local = [name |-> "", avatar |-> ""]
    /\ cur = NoPacket
    /\ todo = << >>
    /\ done = << >>
    /\ pre = NoPre
    /\ call = NoCall
    /\ held = NoChat
    /\ added = [Groups |-> {}, Chats |-> {}]
    /\ mutex = [Groups |-> RWMutex, Chats |-> RWMutex, Friends |-> RWMutex,
                Social |-> RWMutex]
    /\ running = [t \in 0..NumThreads |-> NoCall]

\* ------------------------------------------------------------------
\* A client program calling one cache (Social.Groups and Social.Chats are
\* exported fields and their methods are the public interface).  The two
\* caches are separate objects that share no state: a client program is
\* followed on one of them at a time.
\* ------------------------------------------------------------------
Names == {"a"}
Hashes == {"ab"}
Counts == {1}
Permissions == {0, 1}
ClanRelationships == {EClanRelationship_Invited, EClanRelationship_Member}
RoomClans == {MakeSteamId(EAccountType_Clan, 0)}

Init ==
    /\ InitCaches
    /\ under \in {"Groups", "Chats"}

ClientCall(c) ==
    /\ Perform(c)
    /\ call' = [by |-> "client", op |-> c.op, id |-> c.id, arg |-> c.arg]
    /\ held' = HeldAfter(held, chats, c)
    /\ UNCHANGED <<local, handlerVars, under, mutex, running>>

ClientGroupsAdd ==
    /\ under = "Groups"
    /\ \E id \in ClanIds, rel \in ClanRelationships :
          ClientCall(Call("Groups.Add", id, Group(id, "", "", rel, 0, 0, 0, 0)))

ClientGroupsRemove ==
    /\ under = "Groups"
    /\ \E id \in ClanIds : ClientCall(Call("Groups.Remove", id, 0))

ClientGroupsSetName ==
    /\ under = "Groups"
    /\ \E id \in ClanIds, v \in Names : ClientCall(Call("Groups.SetName", id, v))

ClientGroupsSetAvatar ==
    /\ under = "Groups"
    /\ \E id \in ClanIds, v \in Hashes : ClientCall(Call("Groups.SetAvatar", id, v))

ClientGroupsSetRelationship ==
    /\ under = "Groups"
    /\ \E id \in ClanIds, v \in ClanRelationships :
          ClientCall(Call("Groups.SetRelationship", id, v))

ClientGroupsSetMemberTotalCount ==
    /\ under = "Groups"
    /\ \E id \in ClanIds, v \in Counts :
          ClientCall(Call("Groups.SetMemberTotalCount", id, v))

ClientGroupsSetMemberOnlineCount ==
    /\ under = "Groups"
    /\ \E id \in ClanIds, v \in Counts :
          ClientCall(Call("Groups.SetMemberOnlineCount", id, v))

ClientGroupsSetMemberChattingCount ==
    /\ under = "Groups"
    /\ \E id \in ClanIds, v \in Counts :
          ClientCall(Call("Groups.SetMemberChattingCount", id, v))

ClientGroupsSetMemberInGameCount ==
    /\ under = "Groups"
    /\ \E id \in ClanIds, v \in Counts :
          ClientCall(Call("Groups.SetMemberInGameCount", id, v))

ClientGroupsGetCopy ==
    /\ under \in {"Groups", "Clan"}
    /\ ClientCall(Call("Groups.GetCopy", 0, 0))

ClientGroupsById ==
    /\ under \in {"Groups", "Clan"}
    /\ \E id \in ClanIds : ClientCall(Call("Groups.ById", id, 0))

ClientGroupsCount ==
    /\ under = "Groups"
    /\ ClientCall(Call("Groups.Count", 0, 0))

ClientChatsAdd ==
    /\ under = "Chats"
    /\ \E id \in RoomIds, clan \in RoomClans :
          ClientCall(Call("Chats.Add", id, Chat(id, clan, NIL)))

ClientChatsRemove ==
    /\ under = "Chats"
    /\ \E id \in RoomIds : ClientCall(Call("Chats.Remove", id, 0))

ClientChatsAddChatMember ==
    /\ under = "Chats"
    /\ \E id \in RoomIds, m \in MemberIds, p \in Permissions :
          /\ Cardinality(DOMAIN ChatsList_AddChatMember(chats, id, ChatMember(m, p, p)).heap)
                <= MaxRosters
          /\ ClientCall(Call("Chats.AddChatMember", id, ChatMember(m, p, p)))

ClientChatsRemoveChatMember ==
    /\ under = "Chats"
    /\ \E id \in RoomIds, m \in MemberIds :
          ClientCall(Call("Chats.RemoveChatMember", id, m))

\* The client keeps the copy of one chat of the map GetCopy returned.
ClientChatsGetCopy ==
    /\ under = "Chats"
    /\ \E id \in RoomIds : ClientCall(Call("Chats.GetCopy", id, 0))

ClientChatsById ==
    /\ under = "Chats"
    /\ \E id \in RoomIds : ClientCall(Call("Chats.ById", id, 0))

ClientChatsCount ==
    /\ under = "Chats"
    /\ ClientCall(Call("Chats.Count", 0, 0))

Next ==
    \/ ClientGroupsAdd
    \/ ClientGroupsRemove
    \/ ClientGroupsSetName
    \/ ClientGroupsSetAvatar
    \/ ClientGroupsSetRelationship
    \/ ClientGroupsSetMemberTotalCount
    \/ ClientGroupsSetMemberOnlineCount
    \/ ClientGroupsSetMemberChattingCount
    \/ ClientGroupsSetMemberInGameCount
    \/ ClientGroupsGetCopy
    \/ ClientGroupsById
    \/ ClientGroupsCount
    \/ ClientChatsAdd
    \/ ClientChatsRemove
    \/ ClientChatsAddChatMember
    \/ ClientChatsRemoveChatMember
    \/ ClientChatsGetCopy
    \/ ClientChatsById
    \/ ClientChatsCount

Spec == Init /\ [][Next]_vars

\* ------------------------------------------------------------------
\* Social: what the handlers work with
\* ------------------------------------------------------------------
\* s.client.SteamId(): the identifier of the local session.
ClientSteamId == MakeSteamId(EAccountType_Individual, 0)

IndividualIds == {MakeSteamId(EAccountType_Individual, 1)}

EFriendRelationship_None == 0
EFriendRelationship_RequestRecipient == 2
EFriendRelationship_Friend == 3

\* A set of flag bits; (flags & F) == F for a one-bit F is membership.
HasFlag(flags, f) == f \in flags

\* encoding/hex.EncodeToString
HexChars == <<"0", "1", "2", "3", "4", "5", "6", "7",
              "8", "9", "a", "b", "c", "d", "e", "f">>

RECURSIVE HexEncodeToString(_)
HexEncodeToString(bytes) ==
    IF bytes = << >>
    THEN ""
    ELSE HexChars[(Head(bytes) \div 16) + 1] \o HexChars[(Head(bytes) % 16) + 1]
            \o HexEncodeToString(Tail(bytes))

\* Length in bytes of an avatar hash (a narrow hash: the layout is kept).
AvatarHashLen == 1

RECURSIVE ZeroBytes(_)
ZeroBytes(n) == IF n = 0 THEN << >> ELSE <<0>> \o ZeroBytes(n - 1)

\* steam.ValidAvatar: not the all-zero hash, and of the length of a hash in hex.
ValidAvatar(avatar) ==
    ~(avatar = HexEncodeToString(ZeroBytes(AvatarHashLen)) \/ Len(avatar) # 2 * AvatarHashLen)

\* s.client.Emit(event) and s.client.Write(msg), as calls of a handler.
Emit(event) == Call("Emit", 0, event)

Write(msg) == Call("Write", 0, msg)

\* The loop stops one identifier short.
RequestFriendListInfo_DropLast(ids, requestedInfo) ==
    Write([EMsg |-> "ClientRequestFriendData",
           PersonaStateRequested |-> requestedInfo,
           Friends |-> IF ids = << >> THEN ids ELSE SubSeq(ids, 1, Len(ids) - 1)])

RequestFriendListInfo(ids, requestedInfo) ==
    Write([EMsg |-> "ClientRequestFriendData",
           PersonaStateRequested |-> requestedInfo,
           Friends |-> [i \in 1..Len(ids) |-> ids[i]]])

RequestFriendInfo(id, requestedInfo) == RequestFriendListInfo(<<id>>, requestedInfo)

\* ------------------------------------------------------------------
\* Social.handleAccountInfo: a request for the persona of the session, no event
\* ------------------------------------------------------------------
handleAccountInfo ==
    <<RequestFriendInfo(ClientSteamId, {"PlayerName", "Presence", "SourceID"})>>

\* ------------------------------------------------------------------
\* Social.handleFriendsList
\* ------------------------------------------------------------------
\* The record is added whatever its relationship: the test for none is missing.
FriendsListRecord_StoreNone(list, friend) ==
    IF GetAccountType(friend.Ulfriendid) = EAccountType_Clan
    THEN <<Call("Groups.Add", friend.Ulfriendid,
                Group(friend.Ulfriendid, "", "", friend.Efriendrelationship, 0, 0, 0, 0))>>
    ELSE <<Call("Friends.Add", friend.Ulfriendid,
                Friend(friend.Ulfriendid, friend.Efriendrelationship))>>

\* The calls made for the record friend of the batch list.
FriendsListRecord(list, friend) ==
    LET steamID == friend.Ulfriendid
        isClan  == GetAccountType(steamID) = EAccountType_Clan
        rel     == friend.Efriendrelationship
    IN  IF isClan
        THEN <<IF rel = EClanRelationship_None
               THEN Call("Groups.Remove", steamID, 0)
               ELSE Call("Groups.Add", steamID, Group(steamID, "", "", rel, 0, 0, 0, 0))>>
             \o (IF list.Bincremental
                 THEN <<Emit([type |-> "GroupStateEvent", SteamId |-> steamID,
                              Relationship |-> rel])>>
                 ELSE << >>)
        ELSE <<IF rel = EFriendRelationship_None
               THEN Call("Friends.Remove", steamID, 0)
               ELSE Call("Friends.Add", steamID, Friend(steamID, rel))>>
             \o (IF list.Bincremental
                 THEN <<Emit([type |-> "FriendStateEvent", SteamId |-> steamID,
                              Relationship |-> rel])>>
                 ELSE << >>)

\* A handler that announces the whole batch before it requests the info.
RECURSIVE handleFriendsListFrom_EventFirst(_, _, _)
handleFriendsListFrom_EventFirst(list, i, friendIds) ==
    IF i > Len(list.Friends)
    THEN IF ~list.Bincremental
         THEN <<Emit([type |-> "FriendsListEvent"]),
                RequestFriendListInfo(friendIds, "DefaultInfoRequest")>>
         ELSE << >>
    ELSE FriendsListRecord(list, list.Friends[i])
            \o handleFriendsListFrom_EventFirst(list, i + 1,
                   IF ~list.Bincremental
                   THEN Append(friendIds, list.Friends[i].Ulfriendid)
                   ELSE friendIds)

\* The loop over list.GetFriends() from record i on, friends being the slice built so
\* far, and what follows the loop.
RECURSIVE handleFriendsListFrom(_, _, _)
handleFriendsListFrom(list, i, friendIds) ==
    IF i > Len(list.Friends)
    THEN IF ~list.Bincremental
         THEN <<RequestFriendListInfo(friendIds, "DefaultInfoRequest"),
                Emit([type |-> "FriendsListEvent"])>>
         ELSE << >>
    ELSE FriendsListRecord(list, list.Friends[i])
            \o handleFriendsListFrom(list, i + 1,
                   IF ~list.Bincremental
                   THEN Append(friendIds, list.Friends[i].Ulfriendid)
                   ELSE friendIds)

handleFriendsList(list) == handleFriendsListFrom(list, 1, << >>)

\* ------------------------------------------------------------------
\* Social.handlePersonaState
\* ------------------------------------------------------------------
PersonaStateEvent(flags, friend) ==
    [type |-> "PersonaStateEvent", StatusFlags |-> flags, FriendId |-> friend.Friendid,
     State |-> friend.PersonaState, StateFlags |-> friend.PersonaStateFlags,
     GameAppId |-> friend.GamePlayedAppId, GameId |-> friend.Gameid,
     GameName |-> friend.GameName, Name |-> friend.PlayerName,
     Avatar |-> HexEncodeToString(friend.AvatarHash)]

\* A handler that stores the name of the record whatever the status flags are.
PersonaStateRecord_AnyName(flags, friend) ==
    LET id     == friend.Friendid
        avatar == HexEncodeToString(friend.AvatarHash)
    IN  (IF id = ClientSteamId
         THEN <<Call("Social.setLocal", id,
                     [PlayerName |-> friend.PlayerName, Avatar |-> avatar])>>
         ELSE IF GetAccountType(id) = EAccountType_Individual
         THEN (IF friend.PlayerName # ""
               THEN <<Call("Friends.SetName", id, friend.PlayerName)>> ELSE << >>)
              \o (IF HasFlag(flags, "Presence")
                  THEN (IF ValidAvatar(avatar)
                        THEN <<Call("Friends.SetAvatar", id, avatar)>> ELSE << >>)
                       \o <<Call("Friends.SetPersonaState", id, friend.PersonaState),
                            Call("Friends.SetPersonaStateFlags", id, friend.PersonaStateFlags)>>
                  ELSE << >>)
              \o (IF HasFlag(flags, "GameDataBlob")
                  THEN <<Call("Friends.SetGameAppId", id, friend.GamePlayedAppId),
                         Call("Friends.SetGameId", id, friend.Gameid),
                         Call("Friends.SetGameName", id, friend.GameName)>>
                  ELSE << >>)
         ELSE IF GetAccountType(id) = EAccountType_Clan
         THEN (IF friend.PlayerName # ""
               THEN <<Call("Groups.SetName", id, friend.PlayerName)>> ELSE << >>)
              \o (IF HasFlag(flags, "Presence") /\ ValidAvatar(avatar)
                  THEN <<Call("Groups.SetAvatar", id, avatar)>> ELSE << >>)
         ELSE << >>)
        \o <<Emit(PersonaStateEvent(flags, friend))>>

\* The calls made for the record friend of a batch with status flags flags.
PersonaStateRecord(flags, friend) ==
    LET id     == friend.Friendid
        avatar == HexEncodeToString(friend.AvatarHash)
    IN  (IF id = ClientSteamId
         THEN <<Call("Social.setLocal", id,
                     [PlayerName |-> friend.PlayerName, Avatar |-> avatar])>>
         ELSE IF GetAccountType(id) = EAccountType_Individual
         THEN (IF HasFlag(flags, "PlayerName") /\ friend.PlayerName # ""
               THEN <<Call("Friends.SetName", id, friend.PlayerName)>> ELSE << >>)
              \o (IF HasFlag(flags, "Presence")
                  THEN (IF ValidAvatar(avatar)
                        THEN <<Call("Friends.SetAvatar", id, avatar)>> ELSE << >>)
                       \o <<Call("Friends.SetPersonaState", id, friend.PersonaState),
                            Call("Friends.SetPersonaStateFlags", id, friend.PersonaStateFlags)>>
                  ELSE << >>)
              \o (IF HasFlag(flags, "GameDataBlob")
                  THEN <<Call("Friends.SetGameAppId", id, friend.GamePlayedAppId),
                         Call("Friends.SetGameId", id, friend.Gameid),
                         Call("Friends.SetGameName", id, friend.GameName)>>
                  ELSE << >>)
         ELSE IF GetAccountType(id) = EAccountType_Clan
         THEN (IF HasFlag(flags, "PlayerName") /\ friend.PlayerName # ""
               THEN <<Call("Groups.SetName", id, friend.PlayerName)>> ELSE << >>)
              \o (IF HasFlag(flags, "Presence") /\ ValidAvatar(avatar)
                  THEN <<Call("Groups.SetAvatar", id, avatar)>> ELSE << >>)
         ELSE << >>)
        \o <<Emit(PersonaStateEvent(flags, friend))>>

RECURSIVE handlePersonaStateFrom(_, _)
handlePersonaStateFrom(list, i) ==
    IF i > Len(list.Friends)
    THEN << >>
    ELSE PersonaStateRecord(list.StatusFlags, list.Friends[i])
            \o handlePersonaStateFrom(list, i + 1)

handlePersonaState(list) == handlePersonaStateFrom(list, 1)

\* A locked section that never assigns Social.name.
LocalAfter_KeepName(l, c) ==
    IF c.op = "Social.setLocal"
    THEN [name   |-> l.name,
          avatar |-> IF ValidAvatar(c.arg.Avatar) THEN c.arg.Avatar ELSE l.avatar]
    ELSE l

\* Social.name and Social.avatar after the call c (the locked section of
\* handlePersonaState for the local identifier).
LocalAfter(l, c) ==
    IF c.op = "Social.setLocal"
    THEN [name   |-> IF c.arg.PlayerName # "" THEN c.arg.PlayerName ELSE l.name,
          avatar |-> IF ValidAvatar(c.arg.Avatar) THEN c.arg.Avatar ELSE l.avatar]
    ELSE l

\* ------------------------------------------------------------------
\* Social.handleClanState
\* ------------------------------------------------------------------
\* A handler that announces the clan's state before it stores the name.
handleClanState_EmitFirst(body) ==
    <<Emit([type |-> "ClanStateEvent", ClandId |-> body.SteamidClan,
            StateFlags |-> body.MUnStatusFlags]),
      Call("Groups.SetName", body.SteamidClan, "b")>>

handleClanState(body) ==
    LET name   == IF body.NameInfo.isNil THEN "" ELSE body.NameInfo.ClanName
        avatar == IF body.NameInfo.isNil THEN ""
                  ELSE HexEncodeToString(body.NameInfo.ShaAvatar)
        hasCounts     == ~body.UserCounts.isNil
        totalCount    == IF hasCounts THEN body.UserCounts.Members ELSE 0
        onlineCount   == IF hasCounts THEN body.UserCounts.Online ELSE 0
        chattingCount == IF hasCounts THEN body.UserCounts.Chatting ELSE 0
        ingameCount   == IF hasCounts THEN body.UserCounts.InGame ELSE 0
        flags  == body.MUnStatusFlags
        clanid == body.SteamidClan
    IN  (IF HasFlag(flags, "PlayerName") /\ name # ""
         THEN <<Call("Groups.SetName", clanid, name)>> ELSE << >>)
        \o (IF HasFlag(flags, "Presence") /\ ValidAvatar(avatar)
            THEN <<Call("Groups.SetAvatar", clanid, avatar)>> ELSE << >>)
        \o (IF hasCounts
            THEN <<Call("Groups.SetMemberTotalCount", clanid, totalCount),
                   Call("Groups.SetMemberOnlineCount", clanid, onlineCount),
                   Call("Groups.SetMemberChattingCount", clanid, chattingCount),
                   Call("Groups.SetMemberInGameCount", clanid, ingameCount)>>
            ELSE << >>)
        \o <<Emit([type |-> "ClanStateEvent", ClandId |-> clanid, StateFlags |-> flags,
                   ClanName |-> name, Avatar |-> avatar,
                   MemberTotalCount |-> totalCount, MemberOnlineCount |-> onlineCount,
                   MemberChattingCount |-> chattingCount,
                   MemberInGameCount |-> ingameCount])>>


\* ------------------------------------------------------------------
\* Package rwu: reads from the byte cursor of a payload (bytes.Buffer)
\* ------------------------------------------------------------------
\* A read returns the value, whether it failed, and the cursor after it.  A read that
\* runs out of bytes fails, leaves its result at the zero value and the cursor empty.
ReadResult(val, err, r) == [val |-> val, err |-> err, r |-> r]

RECURSIVE LittleEndian(_)
LittleEndian(bytes) ==
    IF bytes = << >> THEN 0 ELSE Head(bytes) + 256 * LittleEndian(Tail(bytes))

ReadBytes(r, n) ==
    IF Len(r) >= n
    THEN ReadResult(SubSeq(r, 1, n), FALSE, SubSeq(r, n + 1, Len(r)))
    ELSE ReadResult(<< >>, TRUE, << >>)

ReadByte(r) ==
    IF Len(r) >= 1
    THEN ReadResult(r[1], FALSE, Tail(r))
    ELSE ReadResult(0, TRUE, << >>)

ReadUint64(r) ==
    IF Len(r) >= 8
    THEN ReadResult(LittleEndian(SubSeq(r, 1, 8)), FALSE, SubSeq(r, 9, Len(r)))
    ELSE ReadResult(0, TRUE, << >>)

\* A signed 32-bit integer: the top bit of the last byte is the sign.
ReadInt32(r) ==
    IF Len(r) >= 4
    THEN ReadResult(LittleEndian(SubSeq(r, 1, 3))
                       + 65536 * 256 * (IF r[4] >= 128 THEN r[4] - 256 ELSE r[4]),
                    FALSE, SubSeq(r, 5, Len(r)))
    ELSE ReadResult(0, TRUE, << >>)

\* A length-prefixed string: one byte of length, then that many bytes.
ReadString(r) ==
    IF Len(r) >= 1 /\ Len(r) >= 1 + r[1]
    THEN ReadResult(SubSeq(r, 2, 1 + r[1]), FALSE, SubSeq(r, 2 + r[1], Len(r)))
    ELSE ReadResult(<< >>, TRUE, << >>)

\* ------------------------------------------------------------------
\* readChatMember
\* ------------------------------------------------------------------
\* Every error is dropped (_, _ = ...; id, _ := ...): the values read are used as
\* they are.
readChatMember(r) ==
    LET s1   == ReadString(r)         \* MessageObject
        b1   == ReadByte(s1.r)        \* 7
        s2   == ReadString(b1.r)      \* steamid
        id   == ReadUint64(s2.r)
        b2   == ReadByte(id.r)        \* 2
        s3   == ReadString(b2.r)      \* Permissions
        chat == ReadInt32(s3.r)
        b3   == ReadByte(chat.r)      \* 2
        s4   == ReadString(b3.r)      \* Details
        clan == ReadInt32(s4.r)
    IN  [id |-> id.val, chat |-> chat.val, clan |-> clan.val, r |-> clan.r]

\* ------------------------------------------------------------------
\* Social.handleChatEnter
\* ------------------------------------------------------------------
\* Bytes skipped after each member record of a room-entry roster.
RosterPadding == 6

\* The loop for i := 0; i < int(count); i++ from i on, reader being the cursor.
RECURSIVE handleChatEnterFrom(_, _, _, _)
handleChatEnterFrom(chatID, count, i, reader) ==
    IF i >= count
    THEN << >>
    ELSE LET member == readChatMember(reader)
             skip   == ReadBytes(member.r, RosterPadding)
         IN  <<Call("Chats.AddChatMember", chatID,
                    ChatMember(member.id, member.chat, member.clan))>>
             \o handleChatEnterFrom(chatID, count, i + 1, skip.r)

handleChatEnter(body, payload) ==
    LET name   == ReadString(payload)
        zero   == ReadByte(name.r)
        count  == body.NumMembers
        chatID == body.SteamIdChat
        clanID == body.SteamIdClan
    IN  <<Call("Chats.Add", chatID, Chat(chatID, clanID, NIL))>>
        \o handleChatEnterFrom(chatID, count, 0, zero.r)
        \o <<Emit([type |-> "ChatEnterEvent", ChatRoomId |-> body.SteamIdChat,
                   ClanId |-> body.SteamIdClan, Name |-> name.val])>>

\* ------------------------------------------------------------------
\* Social.handleChatMemberInfo
\* ------------------------------------------------------------------
EChatInfoType_StateChange == 1
EChatInfoType_InfoUpdate == 2

EChatMemberStateChange_Entered == 1
EChatMemberStateChange_Left == 2
EChatMemberStateChange_Disconnected == 4
EChatMemberStateChange_Kicked == 8
EChatMemberStateChange_Banned == 16

handleChatMemberInfo(body, payload) ==
    LET chatID == body.SteamIdChat
        actedOn == ReadUint64(payload)
        state   == ReadInt32(actedOn.r)
        actedBy == ReadUint64(state.r)
        zero    == ReadByte(actedBy.r)
        stateChange == state.val
        member  == readChatMember(zero.r)
    IN  IF body.Type = EChatInfoType_StateChange
        THEN (IF stateChange = EChatMemberStateChange_Entered
              THEN <<Call("Chats.AddChatMember", chatID,
                          ChatMember(actedOn.val, member.chat, member.clan))>>
              ELSE IF stateChange \in {EChatMemberStateChange_Banned,
                                       EChatMemberStateChange_Kicked,
                                       EChatMemberStateChange_Disconnected,
                                       EChatMemberStateChange_Left}
              THEN <<Call("Chats.RemoveChatMember", chatID, actedOn.val)>>
              ELSE << >>)
             \o <<Emit([type |-> "ChatMemberInfoEvent", ChatRoomId |-> body.SteamIdChat,
                        Type |-> body.Type,
                        StateChangeInfo |-> [ChatterActedOn |-> actedOn.val,
                                             StateChange |-> stateChange,
                                             ChatterActedBy |-> actedBy.val]])>>
        ELSE << >>

\* ------------------------------------------------------------------
\* The wire format of the payloads (what the chat service sends)
\* ------------------------------------------------------------------
RECURSIVE PutUint(_, _)
PutUint(v, width) ==
    IF width = 0 THEN << >> ELSE <<v % 256>> \o PutUint(v \div 256, width - 1)

PutString(bytes) == <<Len(bytes)>> \o bytes

\* One member record: tag, reserved byte, field name, identifier, reserved byte, field
\* name, chat permissions, reserved byte, field name, clan permissions.
PutChatMember(m) ==
    PutString(<<77>>) \o <<7>> \o PutString(<<115>>) \o PutUint(m.SteamId, 8)
        \o <<2>> \o PutString(<<112>>) \o PutUint(m.ChatPermissions, 4)
        \o <<2>> \o PutString(<<68>>) \o PutUint(m.ClanPermissions, 4)

ChatMemberLen == Len(PutChatMember(ChatMember(0, 0, 0)))

RECURSIVE PutRoster(_)
PutRoster(members) ==
    IF members = << >>
    THEN << >>
    ELSE PutChatMember(Head(members)) \o PutUint(0, RosterPadding) \o PutRoster(Tail(members))

\* The payload of a room-entry message: room name, a zero byte, the roster.
ChatEnterPayload(members) == PutString(<<114>>) \o <<0>> \o PutRoster(members)

\* The payload of a member-info state change: acted-on, change code, acted-by, a zero
\* byte and, for "entered", the member record.
ChatMemberInfoPayload(actedOn, stateChange, actedBy, member) ==
    PutUint(actedOn, 8) \o PutUint(stateChange, 4) \o PutUint(actedBy, 8) \o <<0>>
        \o (IF stateChange = EChatMemberStateChange_Entered
            THEN PutChatMember(member) ELSE << >>)

\* The first n bytes of a payload.
Truncate(bytes, n) == SubSeq(bytes, 1, n)

\* Of the member records of a room-entry payload cut to n bytes, how many are wholly
\* there (the padding after a record is not part of it).
WholeRecords(members, n) ==
    LET start(j) == Len(ChatEnterPayload(SubSeq(members, 1, j - 1)))
    IN  Cardinality({j \in 1..Len(members) : start(j) + ChatMemberLen <= n})

\* ------------------------------------------------------------------
\* Social.HandlePacket and the dispatcher goroutine
\* ------------------------------------------------------------------
\* The handler HandlePacket selects for the packet, as the calls it makes in order.
\* A handler reads the packet only (never a cache), so its calls are a function of
\* the packet.  Message types whose handlers touch no cache make no call here.
HandlePacket(packet) ==
    CASE packet.EMsg = "ClientPersonaState" -> handlePersonaState(packet.Body)
      [] packet.EMsg = "ClientClanState" -> handleClanState(packet.Body)
      [] packet.EMsg = "ClientFriendsList" -> handleFriendsList(packet.Body)
      [] packet.EMsg = "ClientAccountInfo" -> handleAccountInfo
      [] packet.EMsg = "ClientChatEnter" -> handleChatEnter(packet.Body, packet.Payload)
      [] packet.EMsg = "ClientChatMemberInfo" ->
            handleChatMemberInfo(packet.Body, packet.Payload)
      [] OTHER -> << >>

Packet(emsg, body, payload) == [EMsg |-> emsg, Body |-> body, Payload |-> payload]

\* Of the member records the sender put into a chat payload, those that are wholly in
\* the payload as it arrived: the first whole ones.
Sent(members, whole) == SubSeq(members, 1, whole)

\* The dispatcher takes the next packet off the connection: the handler starts.
Receive(packet, sent) ==
    /\ cur.EMsg = "none"
    /\ cur' = [EMsg |-> packet.EMsg, Body |-> packet.Body, Sent |-> sent]
    /\ todo' = HandlePacket(packet)
    /\ done' = << >>
    /\ pre' = [groups |-> groups, friends |-> friends, chats |-> chats]
    /\ UNCHANGED <<groups, friends, chats, local, under, call, held, added, mutex, running>>

\* The programs in which the calls of the handlers are followed lock by lock.
Locked == {"LockRel", "LockPersona", "LockClan", "LockRoom"}

\* The handler makes its next call; each call is atomic (the cache's lock, or
\* Social.mutex, is held for the whole of it) and other goroutines run between calls.
\* Where the locks are followed, only the calls that take none are made this way.
Step ==
    /\ cur.EMsg # "none"
    /\ todo # << >>
    /\ under \in Locked => Head(todo).op \in {"Emit", "Write"}
    /\ Perform(Head(todo))
    /\ local' = LocalAfter(local, Head(todo))
    /\ call' = [by |-> "Social", op |-> Head(todo).op, id |-> Head(todo).id,
                arg |-> Head(todo).arg]
    /\ todo' = Tail(todo)
    /\ done' = Append(done, Head(todo))
    /\ UNCHANGED <<cur, pre, under, held, mutex, running>>

\* The handler returns; the dispatcher is free to take the next packet.
Return ==
    /\ cur.EMsg # "none"
    /\ todo = << >>
    /\ cur' = NoPacket
    /\ done' = << >>
    /\ pre' = NoPre
    /\ call' = NoCall
    /\ UNCHANGED <<groups, friends, chats, local, todo, under, held, added, mutex, running>>

\* All sequences over S of length at most n.
SeqsUpTo(S, n) == UNION {[1..k -> S] : k \in 0..n}

\* The caches after the calls cs, made in order with nothing in between.
RECURSIVE GroupsAfterAll(_, _)
GroupsAfterAll(byId, cs) ==
    IF cs = << >> THEN byId ELSE GroupsAfterAll(GroupsAfter(byId, Head(cs)), Tail(cs))

\* ------------------------------------------------------------------
\* Relationship-list messages (EMsg_ClientFriendsList)
\* ------------------------------------------------------------------
MaxFriends == 2

FriendRelationships ==
    {EFriendRelationship_None, EFriendRelationship_RequestRecipient, EFriendRelationship_Friend}

\* The records a relationship list is made of, per program followed.
FriendsListRecords ==
    CASE under = "Rel" ->
            {[Ulfriendid |-> id, Efriendrelationship |-> rel] :
                id \in ClanIds \cup IndividualIds, rel \in FriendRelationships}
      [] under \in {"Clan", "LockClan"} ->
            {[Ulfriendid |-> MakeSteamId(EAccountType_Clan, 0), Efriendrelationship |-> rel] :
                rel \in {EClanRelationship_None, EClanRelationship_Member}}
      [] under = "Persona" ->
            {[Ulfriendid |-> id, Efriendrelationship |-> rel] :
                id \in IndividualIds,
                rel \in {EFriendRelationship_None, EFriendRelationship_Friend}}
            \cup {[Ulfriendid |-> id, Efriendrelationship |-> EFriendRelationship_Friend] :
                     id \in {MakeSteamId(EAccountType_Individual, 2),
                             MakeSteamId(EAccountType_Clan, 0)}}
      [] under = "LockRel" ->
            {[Ulfriendid |-> MakeSteamId(EAccountType_Clan, 0),
              Efriendrelationship |-> EClanRelationship_Member],
             [Ulfriendid |-> MakeSteamId(EAccountType_Individual, 1),
              Efriendrelationship |-> EFriendRelationship_Friend]}
      [] under = "LockPersona" ->
            {[Ulfriendid |-> id, Efriendrelationship |-> EFriendRelationship_Friend] :
                id \in {MakeSteamId(EAccountType_Individual, 1),
                        MakeSteamId(EAccountType_Clan, 0)}}
      [] OTHER -> {}

FriendsLists ==
    {[Bincremental |-> b, Friends |-> f] :
        b \in (IF under \in {"Rel", "LockRel"} THEN BOOLEAN ELSE {TRUE}),
        f \in SeqsUpTo(FriendsListRecords,
                       IF under \in {"Rel", "LockRel"} THEN MaxFriends ELSE 1)}

RecvFriendsList ==
    /\ under \in {"Rel", "Clan", "Persona", "LockRel", "LockPersona", "LockClan"}
    /\ \E list \in FriendsLists :
          Receive(Packet("ClientFriendsList", list, << >>), Sent(<< >>, 0))

\* ------------------------------------------------------------------
\* Persona messages (EMsg_ClientPersonaState)
\* ------------------------------------------------------------------
PersonaIds ==
    CASE under = "Clan" -> {MakeSteamId(EAccountType_Clan, 0)}
      [] under = "Persona" -> IndividualIds \cup {ClientSteamId}
      [] under = "LockPersona" ->
            {ClientSteamId, MakeSteamId(EAccountType_Individual, 1),
             MakeSteamId(EAccountType_Clan, 0)}
      [] OTHER -> {}

PersonaRecords ==
    {[Friendid |-> id, PlayerName |-> nm, AvatarHash |-> av, PersonaState |-> 1,
      PersonaStateFlags |-> 1, GamePlayedAppId |-> 1, Gameid |-> 1, GameName |-> "g"] :
        id \in PersonaIds, nm \in {"", "a"}, av \in {<<0>>, <<171>>}}

PersonaStates ==
    {[StatusFlags |-> flags, Friends |-> f] :
        flags \in (IF under = "LockPersona"
                   THEN {{"PlayerName", "Presence", "GameDataBlob"}}
                   ELSE SUBSET {"PlayerName", "Presence", "GameDataBlob"}),
        f \in SeqsUpTo(PersonaRecords, 1)}

RecvPersonaState ==
    /\ under \in {"Clan", "Persona", "LockPersona"}
    /\ \E list \in PersonaStates :
          Receive(Packet("ClientPersonaState", list, << >>), Sent(<< >>, 0))

\* ------------------------------------------------------------------
\* Clan aggregate-state messages (EMsg_ClientClanState)
\* ------------------------------------------------------------------
NilInfo == [isNil |-> TRUE, ClanName |-> "", ShaAvatar |-> << >>]

NilCounts == [isNil |-> TRUE, Members |-> 0, Online |-> 0, Chatting |-> 0, InGame |-> 0]

ClanStates ==
    {[SteamidClan |-> MakeSteamId(EAccountType_Clan, 0), MUnStatusFlags |-> flags,
      NameInfo |-> info, UserCounts |-> counts] :
        flags \in SUBSET {"PlayerName", "Presence"},
        info \in {NilInfo} \cup
                 {[isNil |-> FALSE, ClanName |-> nm, ShaAvatar |-> av] :
                     nm \in {"", "b"}, av \in {<<0>>, <<205>>}},
        counts \in {NilCounts} \cup
                   {[isNil |-> FALSE, Members |-> n, Online |-> n, Chatting |-> n,
                     InGame |-> n] : n \in {2, 3}}}

RecvClanState ==
    /\ under \in {"Clan", "LockClan"}
    /\ \E body \in ClanStates :
          Receive(Packet("ClientClanState", body, << >>), Sent(<< >>, 0))

\* ------------------------------------------------------------------
\* Chat messages (EMsg_ClientChatEnter, EMsg_ClientChatMemberInfo)
\* ------------------------------------------------------------------
MaxMembers == 2

MemberRecords == {ChatMember(id, 1, 3) : id \in MemberIds}

\* The lengths a payload for room arrives cut to: any length for the first room; the
\* payloads for the other room arrive whole, and so do all where the locks are followed.
Cuts(room, payload) ==
    IF room = MakeSteamId(EAccountType_Chat, 0) /\ under = "Room"
    THEN 0..Len(payload) ELSE {Len(payload)}

\* A room-entry message advertising the members it was built from.
RecvChatEnter ==
    /\ under \in {"Room", "LockRoom"}
    /\ \E room \in (IF under = "Room" THEN RoomIds ELSE {MakeSteamId(EAccountType_Chat, 0)}),
          clan \in RoomClans, members \in SeqsUpTo(MemberRecords, MaxMembers) :
          LET payload == ChatEnterPayload(members)
          IN  \E n \in Cuts(room, payload) :
                 Receive(Packet("ClientChatEnter",
                                [SteamIdChat |-> room, SteamIdClan |-> clan,
                                 NumMembers |-> Len(members)],
                                Truncate(payload, n)),
                         Sent(members, WholeRecords(members, n)))

StateChanges == {EChatMemberStateChange_Entered, EChatMemberStateChange_Left}

\* A member-info message about one member of the first room.  Only a state change
\* carries a payload the handler reads.
RecvChatMemberInfo ==
    /\ under \in {"Room", "LockRoom"}
    /\ \E type \in {EChatInfoType_StateChange, EChatInfoType_InfoUpdate},
          member \in MemberRecords, change \in StateChanges :
          LET room    == MakeSteamId(EAccountType_Chat, 0)
              payload == ChatMemberInfoPayload(member.SteamId, change,
                                               MakeSteamId(EAccountType_Individual, 3), member)
          IN  \E n \in (IF type = EChatInfoType_StateChange
                        THEN Cuts(room, payload) ELSE {Len(payload)}) :
                 Receive(Packet("ClientChatMemberInfo",
                                [SteamIdChat |-> room, Type |-> type],
                                Truncate(payload, n)),
                         Sent(<<member>>,
                              IF change = EChatMemberStateChange_Entered /\ n = Len(payload)
                              THEN 1 ELSE 0))

\* ------------------------------------------------------------------
\* The specifications of the dispatcher, one per family of messages
\* ------------------------------------------------------------------
NextRel ==
    \/ RecvFriendsList
    \/ Step
    \/ Return

InitRel ==
    /\ InitCaches
    /\ under = "Rel"

SpecRel == InitRel /\ [][NextRel]_vars

\* Persona and clan-state messages, with a client goroutine reading Groups meanwhile.
NextState ==
    \/ RecvFriendsList
    \/ RecvPersonaState
    \/ RecvClanState
    \/ Step
    \/ Return
    \/ ClientGroupsGetCopy
    \/ ClientGroupsById

InitState ==
    /\ InitCaches
    /\ under \in {"Clan", "Persona"}

SpecState == InitState /\ [][NextState]_vars

\* The Groups setters by both routes: a client program calling them, or the
\* dispatcher reaching them through persona and clan-state messages.
NextSetters ==
    \/ ClientGroupsAdd
    \/ ClientGroupsRemove
    \/ ClientGroupsSetName
    \/ ClientGroupsSetAvatar
    \/ ClientGroupsSetRelationship
    \/ ClientGroupsSetMemberTotalCount
    \/ ClientGroupsSetMemberOnlineCount
    \/ ClientGroupsSetMemberChattingCount
    \/ ClientGroupsSetMemberInGameCount
    \/ ClientGroupsGetCopy
    \/ ClientGroupsById
    \/ ClientGroupsCount
    \/ RecvFriendsList
    \/ RecvPersonaState
    \/ RecvClanState
    \/ Step
    \/ Return

InitSetters ==
    /\ InitCaches
    /\ under \in {"Groups", "Clan"}

SpecSetters == InitSetters /\ [][NextSetters]_vars

NextChat ==
    \/ RecvChatEnter
    \/ RecvChatMemberInfo
    \/ Step
    \/ Return

InitChat ==
    /\ InitCaches
    /\ under = "Room"

SpecChat == InitChat /\ [][NextChat]_vars

\* An account-info message (EMsg_ClientAccountInfo); the handler reads nothing of it.
RecvAccountInfo ==
    /\ under = "Persona"
    /\ Receive(Packet("ClientAccountInfo", [PersonaName |-> "a"], << >>), Sent(<< >>, 0))

\* The dispatcher alone, taking messages of every kind modelled one after the other.
NextDispatch ==
    \/ RecvFriendsList
    \/ RecvAccountInfo
    \/ RecvPersonaState
    \/ RecvClanState
    \/ RecvChatEnter
    \/ RecvChatMemberInfo
    \/ Step
    \/ Return

InitDispatch ==
    /\ InitCaches
    /\ under \in {"Rel", "Clan", "Persona", "Room"}

SpecDispatch == InitDispatch /\ [][NextDispatch]_vars

\* ------------------------------------------------------------------
\* Goroutines calling the methods of Groups and of Chats at the same time
\* ------------------------------------------------------------------
\* The calls the goroutines make, on one clan, one room and one member; beside a
\* dispatcher that handles messages, the goroutines are readers.
LockedCalls ==
    LET clan == MakeSteamId(EAccountType_Clan, 0)
        room == MakeSteamId(EAccountType_Chat, 0)
        m    == MakeSteamId(EAccountType_Individual, 1)
        all  ==
         {Call("Groups.Add", clan, Group(clan, "", "", EClanRelationship_Member, 0, 0, 0, 0)),
         Call("Groups.Remove", clan, 0),
         Call("Groups.SetRelationship", clan, EClanRelationship_Invited),
         Call("Groups.GetCopy", 0, 0), Call("Groups.ById", clan, 0),
         Call("Groups.Count", 0, 0)}
        \cup {Call("Groups.SetName", clan, v) : v \in Names}
        \cup {Call("Groups.SetAvatar", clan, v) : v \in Hashes}
        \cup {Call(op, clan, v) :
                  op \in {"Groups.SetMemberTotalCount", "Groups.SetMemberOnlineCount",
                          "Groups.SetMemberChattingCount", "Groups.SetMemberInGameCount"},
                  v \in Counts}
        \cup {Call("Chats.Add", room, Chat(room, c, NIL)) : c \in RoomClans}
        \cup {Call("Chats.Remove", room, 0), Call("Chats.AddChatMember", room, ChatMember(m, 1, 1)),
              Call("Chats.RemoveChatMember", room, m), Call("Chats.GetCopy", room, 0),
              Call("Chats.ById", room, 0), Call("Chats.Count", 0, 0)}
    IN  {c \in all : under = "Lock" \/ c.op \in {"Groups.GetCopy", "Chats.GetCopy"}}

\* A goroutine enters a method: its first line returns, the lock taken.  Lock()
\* returns once no goroutine holds the mutex, RLock() once no writer holds it.
Acquire ==
    /\ under \in {"Lock"} \cup Locked
    /\ \E t \in 1..NumThreads, c \in LockedCalls :
          /\ running[t] = NoCall
          /\ IF LockMode(c.op) = "Lock"
             THEN /\ ~mutex[CacheOf(c.op)].writer
                  /\ mutex[CacheOf(c.op)].readers = 0
                  /\ mutex' = [mutex EXCEPT ![CacheOf(c.op)].writer = TRUE]
             ELSE /\ ~mutex[CacheOf(c.op)].writer
                  /\ mutex' = [mutex EXCEPT ![CacheOf(c.op)].readers = @ + 1]
          /\ running' = [running EXCEPT ![t] = [by |-> "client", op |-> c.op, id |-> c.id,
                                                arg |-> c.arg]]
    /\ UNCHANGED <<groups, friends, chats, local, handlerVars, under, call, held, added>>

\* A goroutine leaves the method it is inside of: the body has run and the deferred
\* Unlock or RUnlock releases the lock.  The goroutine keeps nothing of what a read
\* returned.
Release ==
    /\ under \in {"Lock"} \cup Locked
    /\ \E t \in 1..NumThreads :
          /\ running[t] # NoCall
          /\ Cardinality(DOMAIN ChatsAfter(chats, running[t]).heap) <= MaxRosters
          /\ Perform(running[t])
          /\ mutex' = IF LockMode(running[t].op) = "Lock"
                      THEN [mutex EXCEPT ![CacheOf(running[t].op)].writer = FALSE]
                      ELSE [mutex EXCEPT ![CacheOf(running[t].op)].readers = @ - 1]
          /\ running' = [running EXCEPT ![t] = NoCall]
    /\ UNCHANGED <<local, handlerVars, under, call, held>>

NextLock ==
    \/ Acquire
    \/ Release

InitLock ==
    /\ InitCaches
    /\ under = "Lock"

SpecLock == InitLock /\ [][NextLock]_vars

\* ------------------------------------------------------------------
\* The dispatcher (goroutine 0) handling messages while goroutines read the caches
\* ------------------------------------------------------------------
\* The handler enters the method it calls next: the first line of the method (of the
\* own-account branch of handlePersonaState, s.mutex.Lock()) returns, the lock taken.
Enter ==
    /\ under \in Locked
    /\ cur.EMsg # "none"
    /\ todo # << >>
    /\ Head(todo).op \notin {"Emit", "Write"}
    /\ running[0] = NoCall
    /\ IF LockMode(Head(todo).op) = "Lock"
       THEN /\ ~mutex[CacheOf(Head(todo).op)].writer
            /\ mutex[CacheOf(Head(todo).op)].readers = 0
            /\ mutex' = [mutex EXCEPT ![CacheOf(Head(todo).op)].writer = TRUE]
       ELSE /\ ~mutex[CacheOf(Head(todo).op)].writer
            /\ mutex' = [mutex EXCEPT ![CacheOf(Head(todo).op)].readers = @ + 1]
    /\ running' = [running EXCEPT ![0] = [by |-> "Social", op |-> Head(todo).op,
                                          id |-> Head(todo).id, arg |-> Head(todo).arg]]
    /\ UNCHANGED <<groups, friends, chats, local, handlerVars, under, call, held, added>>

\* The handler leaves the method: the body has run, the lock is released and the
\* handler goes on to its next statement.
Leave ==
    /\ under \in Locked
    /\ running[0] # NoCall
    /\ Perform(Head(todo))
    /\ local' = LocalAfter(local, Head(todo))
    /\ call' = running[0]
    /\ todo' = Tail(todo)
    /\ done' = Append(done, Head(todo))
    /\ mutex' = IF LockMode(running[0].op) = "Lock"
                THEN [mutex EXCEPT ![CacheOf(running[0].op)].writer = FALSE]
                ELSE [mutex EXCEPT ![CacheOf(running[0].op)].readers = @ - 1]
    /\ running' = [running EXCEPT ![0] = NoCall]
    /\ UNCHANGED <<cur, pre, under, held>>

NextLocked ==
    \/ RecvFriendsList
    \/ RecvPersonaState
    \/ RecvClanState
    \/ RecvChatEnter
    \/ RecvChatMemberInfo
    \/ Enter
    \/ Leave
    \/ Step
    \/ Return
    \/ Acquire
    \/ Release

InitLocked ==
    /\ InitCaches
    /\ under \in Locked

SpecLocked == InitLocked /\ [][NextLocked]_vars

\* ------------------------------------------------------------------
\* Properties of the cache interface (specification Spec)
\* ------------------------------------------------------------------

\* C1: a Chat value returned by Chats.GetCopy() or Chats.ById(id), its roster
\* (ChatMembers) included, is unchanged by every later call on the cache: while the
\* client holds the value, what it reads in it stays what it was.  (A Group is a
\* struct of strings and integers: the copy GetCopy/ById make of it shares nothing.)
C1_ReturnedChatIsIndependent ==
    [][(held.found /\ held' = held)
          => ReadChat(held.val, chats'.heap) = ReadChat(held.val, chats.heap)]_vars

\* C4: Add on an identifier that already has an entry leaves the whole cache
\* unchanged, for Groups and for Chats.
C4_AddExistingIsNoop ==
    [][/\ (call'.op = "Groups.Add" /\ call'.arg.SteamId \in DOMAIN groups)
             => groups' = groups
       /\ (call'.op = "Chats.Add" /\ call'.arg.SteamId \in DOMAIN chats.byId)
             => chats' = chats]_vars

\* An Add has just been made on a group whose relationship differs from the one passed
\* and whose name, avatar and total count had been set before.
C4_Witness ==
    /\ call.op = "Groups.Add"
    /\ call.arg.SteamId \in DOMAIN groups
    /\ groups[call.arg.SteamId].Relationship # call.arg.Relationship
    /\ groups[call.arg.SteamId].Name # ""
    /\ groups[call.arg.SteamId].Avatar # ""
    /\ groups[call.arg.SteamId].MemberTotalCount # 0

\* C5: Count() is the number of identifiers added and not removed since, and the keys
\* of GetCopy() are exactly those identifiers, for Groups and for Chats.
C5_CountAndKeysMatchAdded ==
    /\ GroupsList_Count(groups) = Cardinality(added.Groups)
    /\ DOMAIN GroupsList_GetCopy(groups) = added.Groups
    /\ ChatsList_Count(chats) = Cardinality(added.Chats)
    /\ DOMAIN ChatsList_GetCopy(chats) = added.Chats

\* One of two groups added has just been removed.
C5_Witness ==
    /\ call.op = "Groups.Remove"
    /\ Cardinality(added.Groups) = 1
    /\ call.id \notin added.Groups
    /\ GroupsList_Count(groups) = 1

\* ------------------------------------------------------------------
\* Properties of the relationship-list handler (specification SpecRel)
\* ------------------------------------------------------------------

\* C3: when a GroupStateEvent for an incremental record (id, rel) has been emitted,
\* Groups reflects the record: no entry for id if rel is none, and otherwise ById(id)
\* is found with Relationship rel, whatever Groups held for id before the message.
C3_EmittedRelationshipIsInCache ==
    (call.by = "Social" /\ call.op = "Emit" /\ call.arg.type = "GroupStateEvent")
        => IF call.arg.Relationship = EClanRelationship_None
           THEN ~GroupsList_ById(groups, call.arg.SteamId).found
           ELSE /\ GroupsList_ById(groups, call.arg.SteamId).found
                /\ GroupsList_ById(groups, call.arg.SteamId).val.Relationship
                      = call.arg.Relationship

\* The records of the batch in hand the handler has applied so far (one Add or Remove
\* per record), and the last of them.
Applied ==
    Cardinality({i \in 1..Len(done) :
                    done[i].op \in {"Groups.Add", "Groups.Remove",
                                    "Friends.Add", "Friends.Remove"}})

LastApplied == cur.Body.Friends[Applied]

\* C7: no record held in Groups or Friends has relationship none, and once a record
\* (id, none) of a relationship list is applied, id is absent from the cache of its
\* account type.
C7_NoneIsNeverStored ==
    /\ \A id \in DOMAIN groups : groups[id].Relationship # EClanRelationship_None
    /\ \A id \in DOMAIN friends : friends[id].Relationship # EFriendRelationship_None
    /\ (cur.EMsg = "ClientFriendsList" /\ Applied >= 1
           /\ LastApplied.Efriendrelationship = EFriendRelationship_None)
          => IF GetAccountType(LastApplied.Ulfriendid) = EAccountType_Clan
             THEN LastApplied.Ulfriendid \notin DOMAIN groups
             ELSE LastApplied.Ulfriendid \notin DOMAIN friends

\* The second record of a batch, (clan, none), has just been applied to a Groups that
\* held the clan when the batch arrived.
C7_Witness ==
    /\ cur.EMsg = "ClientFriendsList"
    /\ Applied = 2
    /\ LastApplied.Efriendrelationship = EClanRelationship_None
    /\ GetAccountType(LastApplied.Ulfriendid) = EAccountType_Clan
    /\ LastApplied.Ulfriendid \in DOMAIN pre.groups
    /\ call.op = "Groups.Remove"
    /\ groups # pre.groups

\* The follow-up info requests made so far for the batch in hand, by position.
Requests == {i \in 1..Len(done) : done[i].op = "Write"}

\* The identifiers of the batch in hand whose account type is not clan, in order.
RECURSIVE IndividualsOf(_)
IndividualsOf(records) ==
    IF records = << >>
    THEN << >>
    ELSE (IF GetAccountType(Head(records).Ulfriendid) = EAccountType_Clan
          THEN << >> ELSE <<Head(records).Ulfriendid>>)
         \o IndividualsOf(Tail(records))

FullBatchHandled ==
    /\ cur.EMsg = "ClientFriendsList"
    /\ ~cur.Body.Bincremental
    /\ todo = << >>

\* One follow-up request was made, after every cache call of the batch.
OneRequestAfterTheBatch ==
    /\ Cardinality(Requests) = 1
    /\ \A i \in Requests :
          /\ \A j \in 1..(i - 1) : done[j].op \in {"Groups.Add", "Groups.Remove",
                                                   "Friends.Add", "Friends.Remove"}
          /\ \A j \in (i + 1)..Len(done) : done[j].op = "Emit"
          /\ Applied = Len(cur.Body.Friends)

OneFriendOneClan ==
    <<[Ulfriendid |-> MakeSteamId(EAccountType_Individual, 1),
       Efriendrelationship |-> EFriendRelationship_Friend],
      [Ulfriendid |-> MakeSteamId(EAccountType_Clan, 0),
       Efriendrelationship |-> EClanRelationship_Member]>>

GroupFields ==
    {"Name", "Avatar", "Relationship", "MemberTotalCount", "MemberOnlineCount",
     "MemberChattingCount", "MemberInGameCount"}

\* The record read has one field the message writes at its new value and another at
\* its old one, old and new being the record before and after the whole message.
Torn(read, old, new) ==
    \E f, g \in GroupFields :
        /\ old[f] # new[f]
        /\ old[g] # new[g]
        /\ read[f] = new[f]
        /\ read[g] = old[g]

\* C2: while the dispatcher applies one clan-state or persona message to an existing
\* Group, a Group a client reads with GetCopy() or ById() is never torn between the
\* fields the message writes.
C2_ReadsSeeWholeUpdates ==
    (/\ call.by = "client"
     /\ call.op \in {"Groups.ById", "Groups.GetCopy"}
     /\ cur.EMsg \in {"ClientClanState", "ClientPersonaState"})
        => \A id \in DOMAIN GroupsList_GetCopy(groups) :
              (call.op = "Groups.GetCopy" \/ call.id = id)
                 => ~Torn(GroupsList_GetCopy(groups)[id], pre.groups[id],
                          GroupsAfterAll(groups, todo)[id])

GroupSetters ==
    {"Groups.SetName", "Groups.SetAvatar", "Groups.SetRelationship",
     "Groups.SetMemberTotalCount", "Groups.SetMemberOnlineCount",
     "Groups.SetMemberChattingCount", "Groups.SetMemberInGameCount"}

\* C6: a field setter of Groups called with an identifier that has no entry leaves the
\* cache unchanged, creating no entry and leaving Count() as it was, whether a client
\* calls it or a persona or clan-state message reaches it.
C6_SetterOnUnknownIsNoop ==
    [][(call'.op \in GroupSetters /\ call'.id \notin DOMAIN groups)
          => /\ groups' = groups
             /\ GroupsList_Count(groups') = GroupsList_Count(groups)
             /\ ~GroupsList_ById(groups', call'.id).found]_vars

\* A clan-state message for a clan Groups does not hold has made its last count
\* setter call.
C6_Witness ==
    /\ cur.EMsg = "ClientClanState"
    /\ call.by = "Social"
    /\ call.op = "Groups.SetMemberInGameCount"
    /\ call.id \notin DOMAIN groups
    /\ call.arg # 0
    /\ Len(done) >= 4

\* ------------------------------------------------------------------
\* Properties of the chat handlers (specification SpecChat)
\* ------------------------------------------------------------------
\* The roster of the chat room as a reader finds it in list.
RosterOf(list, room) ==
    IF room \in DOMAIN list.byId
    THEN ReadChat(list.byId[room], list.heap).ChatMembers
    ELSE EmptyMap

\* C9: a room-entry or member-info message whose payload ends before a member record
\* is complete adds no roster entry for that record nor for a later one: every entry
\* of the roster is as it was before the message or is a record wholly in the payload.
C9_TruncatedRecordsAddNothing ==
    cur.EMsg \in {"ClientChatEnter", "ClientChatMemberInfo"}
        => \A m \in DOMAIN RosterOf(chats, cur.Body.SteamIdChat) :
              \/ /\ m \in DOMAIN RosterOf(pre.chats, cur.Body.SteamIdChat)
                 /\ RosterOf(chats, cur.Body.SteamIdChat)[m]
                       = RosterOf(pre.chats, cur.Body.SteamIdChat)[m]
              \/ \E j \in 1..Len(cur.Sent) :
                    RosterOf(chats, cur.Body.SteamIdChat)[m] = cur.Sent[j]

\* C10: once a room-entry message whose payload is cut in record k is handled, the
\* members of records 1..k-1 are in the roster of the room with the permissions of
\* their records, and Friends, Groups and every other chat are as before the message.
C10_EarlierMembersKept ==
    (/\ cur.EMsg = "ClientChatEnter"
     /\ todo = << >>
     /\ Len(cur.Sent) < cur.Body.NumMembers)
        => /\ \A j \in 1..Len(cur.Sent) :
                 /\ cur.Sent[j].SteamId \in DOMAIN RosterOf(chats, cur.Body.SteamIdChat)
                 /\ RosterOf(chats, cur.Body.SteamIdChat)[cur.Sent[j].SteamId] = cur.Sent[j]
           /\ groups = pre.groups
           /\ friends = pre.friends
           /\ \A other \in DOMAIN pre.chats.byId \ {cur.Body.SteamIdChat} :
                 /\ other \in DOMAIN chats.byId
                 /\ ReadChat(chats.byId[other], chats.heap)
                       = ReadChat(pre.chats.byId[other], pre.chats.heap)

\* ------------------------------------------------------------------
\* Properties of rosters under room-entry and member-info messages (SpecChat)
\* ------------------------------------------------------------------
\* The chats after the calls cs, made in order with nothing in between.
RECURSIVE ChatsAfterAll(_, _)
ChatsAfterAll(list, cs) ==
    IF cs = << >> THEN list ELSE ChatsAfterAll(ChatsAfter(list, Head(cs)), Tail(cs))

\* The roster with the records members put into it in order.
RECURSIVE RosterWith(_, _)
RosterWith(roster, members) ==
    IF members = << >>
    THEN roster
    ELSE RosterWith(MapPut(roster, Head(members).SteamId, Head(members)), Tail(members))

RemovalCodes ==
    {EChatMemberStateChange_Banned, EChatMemberStateChange_Kicked,
     EChatMemberStateChange_Disconnected, EChatMemberStateChange_Left}

\* A room-entry message whose payload holds every record it advertises has been
\* handled.
WholeEntryHandled ==
    /\ cur.EMsg = "ClientChatEnter"
    /\ todo = << >>
    /\ Len(cur.Sent) = cur.Body.NumMembers

\* The calls of the handler for the whole member-info message saying that change
\* happened to member in room.
MemberInfoCalls(room, member, change) ==
    handleChatMemberInfo([SteamIdChat |-> room, Type |-> EChatInfoType_StateChange],
                         ChatMemberInfoPayload(member.SteamId, change,
                                               MakeSteamId(EAccountType_Individual, 3),
                                               member))

\* C11: after a room-entry message advertising well-formed members M for a chat not
\* cached before, a member-info state change banned, kicked, disconnected or left for
\* a member m of M leaves the roster of the chat at exactly M minus m, the others
\* with the permissions of the room-entry message; and whenever the dispatcher has
\* handled such a state change, the roster is the one before the message minus m.
C11_RemovalLeavesTheOthers ==
    /\ (WholeEntryHandled /\ cur.Body.SteamIdChat \notin DOMAIN pre.chats.byId)
          => \A j \in 1..Len(cur.Sent), change \in RemovalCodes :
                RosterOf(ChatsAfterAll(chats, MemberInfoCalls(cur.Body.SteamIdChat,
                                                              cur.Sent[j], change)),
                         cur.Body.SteamIdChat)
                   = MapDelete(RosterWith(EmptyMap, cur.Sent), cur.Sent[j].SteamId)
    /\ (cur.EMsg = "ClientChatMemberInfo" /\ todo = << >>)
          => \A i \in 1..Len(done) :
                done[i].op = "Chats.RemoveChatMember"
                   => RosterOf(chats, cur.Body.SteamIdChat)
                         = MapDelete(RosterOf(pre.chats, cur.Body.SteamIdChat), done[i].arg)

\* A "left" message for one of the two members a room-entry message put into the
\* roster has been handled: the roster holds the other one alone, as it was.
C11_Witness ==
    /\ cur.EMsg = "ClientChatMemberInfo"
    /\ todo = << >>
    /\ \E i \in 1..Len(done) : done[i].op = "Chats.RemoveChatMember"
    /\ cur.Body.SteamIdChat \in DOMAIN pre.chats.byId
    /\ pre.chats.byId[cur.Body.SteamIdChat].GroupId \in RoomClans
    /\ RosterOf(pre.chats, cur.Body.SteamIdChat)
          = RosterWith(EmptyMap, <<ChatMember(MakeSteamId(EAccountType_Individual, 1), 1, 3),
                                   ChatMember(MakeSteamId(EAccountType_Individual, 2), 1, 3)>>)
    /\ Cardinality(DOMAIN RosterOf(chats, cur.Body.SteamIdChat)) = 1
    /\ \A m \in DOMAIN RosterOf(chats, cur.Body.SteamIdChat) :
          RosterOf(chats, cur.Body.SteamIdChat)[m] = ChatMember(m, 1, 3)

\* ------------------------------------------------------------------
\* Frame of a presence record (SpecState)
\* ------------------------------------------------------------------
\* The handler of a presence message with one record makes its next call.
PersonaCallMade ==
    /\ cur.EMsg = "ClientPersonaState"
    /\ Len(cur.Body.Friends) = 1
    /\ todo # << >>
    /\ todo' = Tail(todo)

\* Every entry of Friends but that of id is as before.
FriendsSameBut(id) ==
    /\ DOMAIN friends' \ {id} = DOMAIN friends \ {id}
    /\ \A k \in DOMAIN friends \ {id} : friends'[k] = friends[k]

\* C12: every call made for a presence record of the local identifier leaves
\* Friends, Groups and Chats as they are, and the locked section sets the local
\* name to the record's name when that is not empty; every call made for a presence
\* record of another individual leaves Groups, Chats, the local name and avatar and
\* every other entry of Friends as they are.
C12_PresenceRecordFrame ==
    [][PersonaCallMade =>
          LET friend == cur.Body.Friends[1]
              id     == friend.Friendid
          IN  /\ id = ClientSteamId =>
                    /\ friends' = friends /\ groups' = groups /\ chats' = chats
                    /\ (Head(todo).op = "Social.setLocal" /\ friend.PlayerName # "")
                          => local'.name = friend.PlayerName
              /\ (id # ClientSteamId /\ GetAccountType(id) = EAccountType_Individual) =>
                    /\ groups' = groups /\ chats' = chats /\ local' = local
                    /\ FriendsSameBut(id)]_vars

\* A presence message naming the friend has been handled after one naming the local
\* session: both names are stored, beside another friend and a group.
C12_Witness ==
    /\ cur.EMsg = "ClientPersonaState"
    /\ todo = << >>
    /\ Len(cur.Body.Friends) = 1
    /\ cur.Body.Friends[1].Friendid \in IndividualIds
    /\ cur.Body.Friends[1].Friendid \in DOMAIN friends
    /\ friends[cur.Body.Friends[1].Friendid].Name = "a"
    /\ pre.friends[cur.Body.Friends[1].Friendid].Name = ""
    /\ local.name = "a"
    /\ MakeSteamId(EAccountType_Individual, 2) \in DOMAIN friends
    /\ DOMAIN groups # {}

\* The dispatcher makes the call Chats.AddChatMember next.
AddChatMemberMade ==
    /\ todo # << >>
    /\ todo' = Tail(todo)
    /\ Head(todo).op = "Chats.AddChatMember"

\* C13: Chats.AddChatMember(chat, m) made by a handler leaves the roster of chat as
\* it was but for the entry of m's identifier, which is m: one entry, with m's
\* permissions, whether or not the identifier was in the roster; the same call made
\* again changes nothing, and made with other permissions for the same identifier it
\* leaves that one entry with the other permissions.
C13_AddChatMemberIsUpsert ==
    [][AddChatMemberMade =>
          LET room == Head(todo).id
              m    == Head(todo).arg
          IN  /\ RosterOf(chats', room) = MapPut(RosterOf(chats, room), m.SteamId, m)
              /\ ChatsList_AddChatMember(chats', room, m) = chats'
              /\ \A p \in Permissions, q \in Permissions :
                    RosterOf(ChatsList_AddChatMember(chats', room, ChatMember(m.SteamId, p, q)),
                             room)
                       = MapPut(RosterOf(chats, room), m.SteamId, ChatMember(m.SteamId, p, q))]_vars

\* An "entered" message for a member has been handled whose identifier the roster
\* held with other permissions: the roster has as many entries as before, and that
\* of the member carries the permissions of the message.
C13_Witness ==
    /\ cur.EMsg = "ClientChatMemberInfo"
    /\ todo = << >>
    /\ \E i \in 1..Len(done) :
          /\ done[i].op = "Chats.AddChatMember"
          /\ done[i].arg.SteamId \in DOMAIN RosterOf(pre.chats, done[i].id)
          /\ RosterOf(pre.chats, done[i].id)[done[i].arg.SteamId] # done[i].arg
          /\ done[i].arg.ChatPermissions = 1
          /\ RosterOf(chats, done[i].id)[done[i].arg.SteamId] = done[i].arg
          /\ DOMAIN RosterOf(chats, done[i].id) = DOMAIN RosterOf(pre.chats, done[i].id)
          /\ Cardinality(DOMAIN RosterOf(chats, done[i].id)) = 2

\* ------------------------------------------------------------------
\* Order of writes to one field (SpecSetters)
\* ------------------------------------------------------------------
\* The field of a Group each setter writes.
FieldSet ==
    [op \in GroupSetters |->
        CASE op = "Groups.SetName" -> "Name"
          [] op = "Groups.SetAvatar" -> "Avatar"
          [] op = "Groups.SetRelationship" -> "Relationship"
          [] op = "Groups.SetMemberTotalCount" -> "MemberTotalCount"
          [] op = "Groups.SetMemberOnlineCount" -> "MemberOnlineCount"
          [] op = "Groups.SetMemberChattingCount" -> "MemberChattingCount"
          [] op = "Groups.SetMemberInGameCount" -> "MemberInGameCount"]

\* A goroutine, the dispatcher's or a client's, makes a setter call of Groups: the
\* step in which it holds the lock of the cache.
SetterMade ==
    /\ call'.op \in GroupSetters
    /\ \/ /\ todo # << >>
          /\ todo' = Tail(todo)
          /\ call' = [by |-> "Social", op |-> Head(todo).op, id |-> Head(todo).id,
                      arg |-> Head(todo).arg]
       \/ /\ call'.by = "client"
          /\ UNCHANGED handlerVars

\* C14: a setter call on an identifier Groups holds leaves the field it sets at the
\* value of that call, whatever an earlier call had stored there, and every other
\* field and entry as before: of two updates of one field the value of the one that
\* took the lock of the cache last is the one stored.
C14_LastWriteWins ==
    [][(SetterMade /\ call'.id \in DOMAIN groups)
          => /\ DOMAIN groups' = DOMAIN groups
             /\ groups'[call'.id][FieldSet[call'.op]] = call'.arg
             /\ \A f \in GroupFields \ {FieldSet[call'.op]} :
                   groups'[call'.id][f] = groups[call'.id][f]
             /\ \A k \in DOMAIN groups \ {call'.id} : groups'[k] = groups[k]]_vars

\* A clan-state message has been handled that named the clan and counted its members
\* otherwise than the messages before it had: the name and the count stored are those
\* of this message.
C14_Witness ==
    /\ cur.EMsg = "ClientClanState"
    /\ todo = << >>
    /\ cur.Body.SteamidClan \in DOMAIN pre.groups
    /\ cur.Body.SteamidClan \in DOMAIN groups
    /\ \E i \in 1..Len(done) : done[i].op = "Groups.SetName"
    /\ \E i \in 1..Len(done) : done[i].op = "Groups.SetMemberTotalCount"
    /\ pre.groups[cur.Body.SteamidClan].Name = "a"
    /\ groups[cur.Body.SteamidClan].Name = "b"
    /\ pre.groups[cur.Body.SteamidClan].MemberTotalCount = 2
    /\ groups[cur.Body.SteamidClan].MemberTotalCount = 3

\* ------------------------------------------------------------------
\* Keys and lookups of the caches (Spec)
\* ------------------------------------------------------------------
\* C17: every key of Groups and of Chats is the SteamId of the record stored under
\* it, and every key of every roster is the SteamId of the ChatMember stored under
\* it, after any sequence of Add, Remove, setters, AddChatMember (the one that creates
\* a missing chat included) and RemoveChatMember.
C17_KeysAreIdentifiers ==
    /\ \A k \in DOMAIN groups : groups[k].SteamId = k
    /\ \A k \in DOMAIN chats.byId : chats.byId[k].SteamId = k
    /\ \A ref \in DOMAIN chats.heap :
          \A k \in DOMAIN chats.heap[ref] : chats.heap[ref][k].SteamId = k

\* AddChatMember has created a chat nobody had added (no clan identifier), beside
\* another chat, and its roster holds two members.
C17_Witness ==
    /\ call.op = "Chats.AddChatMember"
    /\ call.id \in DOMAIN chats.byId
    /\ chats.byId[call.id].GroupId = 0
    /\ Cardinality(DOMAIN RosterOf(chats, call.id)) = 2
    /\ Cardinality(DOMAIN chats.byId) = 2

\* The chats of the cache as a reader under the lock finds them.
ChatsView(list) == [k \in DOMAIN list.byId |-> ReadChat(list.byId[k], list.heap)]

\* C18: ById(id) of Chats and of Groups reports not-found exactly when id is no key
\* of the cache at the call, that is when it was never added or was removed since it
\* was last added, and otherwise returns the record stored, found, whatever its other
\* fields are; the call leaves the caches as they are.
C18_ByIdFindsExactlyTheKeys ==
    [][/\ call'.op = "Chats.ById" =>
             /\ held'.found = (call'.id \in DOMAIN chats.byId)
             /\ held'.found = (call'.id \in added.Chats)
             /\ held'.found => held'.val = chats.byId[call'.id]
             /\ ~held'.found => held'.val = Chat(0, 0, NIL)
             /\ ChatsView(chats') = ChatsView(chats)
             /\ groups' = groups /\ friends' = friends /\ added' = added
       /\ call'.op = "Groups.ById" =>
             /\ GroupsList_ById(groups, call'.id).found = (call'.id \in DOMAIN groups)
             /\ GroupsList_ById(groups, call'.id).found = (call'.id \in added.Groups)
             /\ GroupsList_ById(groups, call'.id).found
                   => GroupsList_ById(groups, call'.id).val = groups[call'.id]
             /\ groups' = groups /\ chats' = chats /\ friends' = friends
             /\ added' = added]_vars

\* ById has found a chat that has no clan identifier and whose roster is empty: one
\* AddChatMember created, whose only member was removed.
C18_Witness ==
    /\ call.op = "Chats.ById"
    /\ held.found
    /\ held.val.SteamId = call.id
    /\ held.val.GroupId = 0
    /\ held.val.ChatMembers # NIL
    /\ RosterOf(chats, call.id) = EmptyMap

\* ------------------------------------------------------------------
\* What a room-entry message leaves in Chats (SpecChat)
\* ------------------------------------------------------------------
\* C19: once a room-entry message for a room with a clan identifier has been handled,
\* Chats.ById of the room finds a chat whose GroupId is that clan identifier, whether
\* or not Chats held an entry for the room before.
C19_EntryStoresClanId ==
    (cur.EMsg = "ClientChatEnter" /\ todo = << >>)
       => /\ ChatsList_ById(chats, cur.Body.SteamIdChat).found
          /\ ChatsList_ById(chats, cur.Body.SteamIdChat).val.GroupId = cur.Body.SteamIdClan

\* C20: once a room-entry message whose payload holds every record it advertises has
\* been handled, the roster of the room is exactly the members of the message, each
\* with the permissions of its record, whatever Chats held for the room before.
C20_RosterIsTheMessageMembers ==
    WholeEntryHandled
       => RosterOf(chats, cur.Body.SteamIdChat) = RosterWith(EmptyMap, cur.Sent)

\* ------------------------------------------------------------------
\* Re-delivery of a message (SpecDispatch)
\* ------------------------------------------------------------------
\* The friends after the calls cs, made in order with nothing in between.
RECURSIVE FriendsAfterAll(_, _)
FriendsAfterAll(byId, cs) ==
    IF cs = << >> THEN byId ELSE FriendsAfterAll(FriendsAfter(byId, Head(cs)), Tail(cs))

\* C15: once the dispatcher has handled a message of any of the five kinds
\* (relationship list, persona, clan state, room entry, member info), handling the
\* same message again at once, that is making the calls of its handler once more,
\* leaves Friends, Groups, Chats and every roster as they are.
C15_RedeliveryChangesNothing ==
    (cur.EMsg # "none" /\ todo = << >>)
       => /\ FriendsAfterAll(friends, done) = friends
          /\ GroupsAfterAll(groups, done) = groups
          /\ ChatsView(ChatsAfterAll(chats, done)) = ChatsView(chats)

\* A relationship list that brought a friend and a group into the caches has been
\* handled.
C15_Witness ==
    /\ cur.EMsg = "ClientFriendsList"
    /\ todo = << >>
    /\ Len(cur.Body.Friends) = 2
    /\ DOMAIN pre.friends = {}
    /\ DOMAIN pre.groups = {}
    /\ Cardinality(DOMAIN friends) = 1
    /\ Cardinality(DOMAIN groups) = 1

\* ------------------------------------------------------------------
\* Exclusion of writers (SpecLock)
\* ------------------------------------------------------------------
\* C16: whenever two goroutines are inside methods of the same cache, both methods
\* are reads (GetCopy, ById, Count): a mutating method (Add, Remove, a setter,
\* AddChatMember, RemoveChatMember) is inside its locked section only when no other
\* method of that cache is, and the mutex of the cache counts who is inside.
C16_WritersAreAlone ==
    /\ \A t \in 1..NumThreads, u \in 1..NumThreads :
          (t # u /\ running[t] # NoCall /\ running[u] # NoCall
              /\ CacheOf(running[t].op) = CacheOf(running[u].op))
             => /\ running[t].op \in {"Groups.GetCopy", "Groups.ById", "Groups.Count",
                                      "Chats.GetCopy", "Chats.ById", "Chats.Count"}
                /\ running[u].op \in {"Groups.GetCopy", "Groups.ById", "Groups.Count",
                                      "Chats.GetCopy", "Chats.ById", "Chats.Count"}
    /\ \A t \in 1..NumThreads :
          (running[t] # NoCall
              /\ running[t].op \notin {"Groups.GetCopy", "Groups.ById", "Groups.Count",
                                       "Chats.GetCopy", "Chats.ById", "Chats.Count"})
             => /\ mutex[CacheOf(running[t].op)].writer
                /\ mutex[CacheOf(running[t].op)].readers = 0

\* Two goroutines are inside reads of Chats together, GetCopy and ById, of a cache
\* an earlier mutating call has filled.
C16_Witness ==
    /\ running[1].op = "Chats.GetCopy"
    /\ running[2].op = "Chats.ById"
    /\ mutex.Chats.readers = 2
    /\ RosterOf(chats, MakeSteamId(EAccountType_Chat, 0)) # EmptyMap

\* ------------------------------------------------------------------
\* Events of the handlers (SpecRel, SpecDispatch)
\* ------------------------------------------------------------------
\* The positions of done at which the handler emitted an event.
Emits == {i \in 1..Len(done) : done[i].op = "Emit"}

\* C21: an incremental relationship list of n records has emitted, once handled,
\* exactly n events, the i-th right after the cache call of the i-th record and
\* carrying its identifier and relationship, and no batch-complete event and no
\* follow-up request; a full list has emitted no per-record event and exactly one
\* batch-complete event, last, right after the one follow-up request, every record
\* having been applied before.
C21_EventsOfARelationshipList ==
    (cur.EMsg = "ClientFriendsList" /\ todo = << >>)
       => LET records == cur.Body.Friends
              n       == Len(records)
          IN  IF cur.Body.Bincremental
              THEN /\ Len(done) = 2 * n
                   /\ Emits = {2 * i : i \in 1..n}
                   /\ Requests = {}
                   /\ \A i \in 1..n :
                         /\ done[2 * i - 1].op \in {"Groups.Add", "Groups.Remove",
                                                    "Friends.Add", "Friends.Remove"}
                         /\ done[2 * i - 1].id = records[i].Ulfriendid
                         /\ done[2 * i].arg
                               = [type |-> IF GetAccountType(records[i].Ulfriendid)
                                                 = EAccountType_Clan
                                           THEN "GroupStateEvent" ELSE "FriendStateEvent",
                                  SteamId |-> records[i].Ulfriendid,
                                  Relationship |-> records[i].Efriendrelationship]
              ELSE /\ Len(done) = n + 2
                   /\ Applied = n
                   /\ Requests = {n + 1}
                   /\ Emits = {n + 2}
                   /\ done[n + 2].arg = [type |-> "FriendsListEvent"]

\* An incremental list of a clan record and a friend record has been handled: two
\* events, one of each kind.
C21_Witness ==
    /\ cur.EMsg = "ClientFriendsList"
    /\ todo = << >>
    /\ cur.Body.Bincremental
    /\ Len(cur.Body.Friends) = 2
    /\ GetAccountType(cur.Body.Friends[1].Ulfriendid) = EAccountType_Clan
    /\ GetAccountType(cur.Body.Friends[2].Ulfriendid) = EAccountType_Individual
    /\ Len(done) = 4
    /\ done[2].arg.type = "GroupStateEvent"
    /\ done[4].arg.type = "FriendStateEvent"

\* The fields f of every entry of the cache are as before, and so are its keys.
FieldsKept(before, after, fields) ==
    /\ DOMAIN after = DOMAIN before
    /\ \A k \in DOMAIN before : \A f \in fields : after[k][f] = before[k][f]

\* C22: no call made for a presence batch changes a field whose bit the status flags
\* of the batch do not hold, in Friends or in Groups, whatever the record carries:
\* without PlayerName the names stay, without Presence the avatars and the presence
\* state and flags of friends stay, without GameDataBlob the game fields stay.
C22_OnlyFlaggedFieldsChange ==
    [][PersonaCallMade =>
          LET flags == cur.Body.StatusFlags
          IN  /\ ~HasFlag(flags, "PlayerName") =>
                    /\ FieldsKept(friends, friends', {"Name"})
                    /\ FieldsKept(groups, groups', {"Name"})
              /\ ~HasFlag(flags, "Presence") =>
                    /\ FieldsKept(friends, friends',
                                  {"Avatar", "PersonaState", "PersonaStateFlags"})
                    /\ FieldsKept(groups, groups', {"Avatar"})
              /\ ~HasFlag(flags, "GameDataBlob") =>
                    FieldsKept(friends, friends', {"GameAppId", "GameId", "GameName"})]_vars

\* A presence batch with the Presence bit and without the PlayerName bit has been
\* handled for a clan Groups holds: the avatar is the one of the record, the name is
\* still the one a clan-state message had stored, not the one the record carries.
C22_Witness ==
    /\ cur.EMsg = "ClientPersonaState"
    /\ todo = << >>
    /\ Len(cur.Body.Friends) = 1
    /\ cur.Body.StatusFlags = {"Presence"}
    /\ cur.Body.Friends[1].PlayerName = "a"
    /\ cur.Body.Friends[1].Friendid \in DOMAIN pre.groups
    /\ pre.groups[cur.Body.Friends[1].Friendid].Name = "b"
    /\ pre.groups[cur.Body.Friends[1].Friendid].Avatar # "ab"
    /\ cur.Body.Friends[1].Friendid \in DOMAIN groups
    /\ groups[cur.Body.Friends[1].Friendid].Name = "b"
    /\ groups[cur.Body.Friends[1].Friendid].Avatar = "ab"

\* C24: once the dispatcher has handled a message of a kind HandlePacket recognises,
\* the handler has emitted exactly one event, or exactly one per record for a presence
\* batch and for an incremental relationship list.
C24_OneEventPerMessage ==
    (cur.EMsg # "none" /\ todo = << >>)
       => Cardinality(Emits)
             = IF cur.EMsg = "ClientPersonaState"
                  \/ (cur.EMsg = "ClientFriendsList" /\ cur.Body.Bincremental)
               THEN Len(cur.Body.Friends)
               ELSE 1


\* ------------------------------------------------------------------
\* Properties of the dispatcher beside reading goroutines (specification SpecLocked)
\* ------------------------------------------------------------------
\* The handler makes its next call and the call is an Emit.
EmitMade ==
    /\ cur.EMsg # "none"
    /\ todo # << >>
    /\ Head(todo).op = "Emit"
    /\ done' = Append(done, Head(todo))

\* The positions of the calls in cs that enter a method of a cache or lock Social.mutex.
CacheOps(cs) == {i \in 1..Len(cs) : cs[i].op \notin {"Emit", "Write"}}

\* C23: when a handler emits an event, the dispatcher is inside no method and no
\* lock is write-held (the other goroutines only read), every cache holds what the
\* calls the handler made so far leave in it, and no cache call of the message is
\* still to come; for the per-record events of a relationship list, the call just
\* completed is the Add or Remove of the record the event names and no call of a
\* later record was made.
C23_EmitAfterCommit ==
    [][EmitMade =>
          LET e == Head(todo).arg
          IN  /\ running[0] = NoCall
              /\ \A l \in DOMAIN mutex : ~mutex[l].writer
              /\ groups = GroupsAfterAll(pre.groups, done)
              /\ friends = FriendsAfterAll(pre.friends, done)
              /\ ChatsView(chats) = ChatsView(ChatsAfterAll(pre.chats, done))
              /\ IF e.type \in {"FriendStateEvent", "GroupStateEvent"}
                 THEN /\ done # << >>
                      /\ done[Len(done)].op \in {"Friends.Add", "Friends.Remove",
                                                 "Groups.Add", "Groups.Remove"}
                      /\ done[Len(done)].id = e.SteamId
                      /\ Cardinality(CacheOps(done)) = Cardinality(Emits) + 1
                 ELSE CacheOps(Tail(todo)) = {}]_vars

\* A clan-state message that carried a name, an avatar and counts has been handled
\* while a goroutine was inside Groups.GetCopy: six setters, each of which waited for
\* the lock, then the event.
C23_Witness ==
    /\ under = "LockClan"
    /\ cur.EMsg = "ClientClanState"
    /\ todo = << >>
    /\ Len(done) = 7
    /\ done[7].op = "Emit"
    /\ MakeSteamId(EAccountType_Clan, 0) \in DOMAIN groups
    /\ groups # pre.groups
    /\ \E t \in 1..NumThreads : running[t].op = "Groups.GetCopy"


\* The methods of each lockable resource, by name.
MethodsOf ==
    [Groups  |-> {"Groups.Add", "Groups.Remove", "Groups.SetName", "Groups.SetAvatar",
                  "Groups.SetRelationship", "Groups.SetMemberTotalCount",
                  "Groups.SetMemberOnlineCount", "Groups.SetMemberChattingCount",
                  "Groups.SetMemberInGameCount", "Groups.GetCopy", "Groups.ById",
                  "Groups.Count"},
     Chats   |-> {"Chats.Add", "Chats.Remove", "Chats.AddChatMember",
                  "Chats.RemoveChatMember", "Chats.GetCopy", "Chats.ById", "Chats.Count"},
     Friends |-> {"Friends.Add", "Friends.Remove", "Friends.SetName", "Friends.SetAvatar",
                  "Friends.SetRelationship", "Friends.SetPersonaState",
                  "Friends.SetPersonaStateFlags", "Friends.SetGameAppId",
                  "Friends.SetGameId", "Friends.SetGameName"},
     Social  |-> {"Social.setLocal"}]

\* The goroutines inside a method of resource l (the dispatcher is goroutine 0).
Inside(l) == {t \in 0..NumThreads : running[t].op \in MethodsOf[l]}

\* The dispatcher stands before a cache call of its handler.
DispatcherAt(l) ==
    /\ cur.EMsg # "none"
    /\ todo # << >>
    /\ running[0] = NoCall
    /\ Head(todo).op \in MethodsOf[l]

\* C25: the holders of each of the four locks (Friends, Groups, Chats, Social.mutex)
\* are exactly the goroutines inside a method of that resource, so a goroutine holds
\* one lock while inside a method and none otherwise; the dispatcher standing before
\* a call on one resource enters it whenever no goroutine is inside that resource,
\* whatever goes on in the others, and otherwise a goroutine inside that resource can
\* leave; every call the dispatcher makes is a call on one of the four resources, an
\* Emit or a Write; and in every state some goroutine can take a step.
C25_IndependentLocksNoDeadlock ==
    /\ \A l \in DOMAIN mutex :
          /\ (IF mutex[l].writer THEN 1 ELSE 0) + mutex[l].readers = Cardinality(Inside(l))
          /\ DispatcherAt(l) =>
                IF Inside(l) = {} THEN ENABLED Enter ELSE ENABLED Release
    /\ \A t \in 0..NumThreads :
          running[t] # NoCall => \E l \in DOMAIN mutex : running[t].op \in MethodsOf[l]
    /\ \A i \in 1..Len(todo) :
          todo[i].op \in {"Emit", "Write"} \/ \E l \in DOMAIN mutex : todo[i].op \in MethodsOf[l]
    /\ \/ cur.EMsg = "none"
       \/ ENABLED Enter
       \/ ENABLED Leave
       \/ ENABLED Step
       \/ ENABLED Return
       \/ ENABLED Release

\* The dispatcher is inside a Groups setter, holding the Groups lock, while a
\* goroutine is inside Chats.GetCopy, holding the Chats lock shared.
C25_Witness ==
    /\ running[0].op = "Groups.SetName"
    /\ mutex.Groups.writer
    /\ mutex.Chats.readers = 1
    /\ \E t \in 1..NumThreads : running[t].op = "Chats.GetCopy"

====
